---- MODULE Spec2Model ----
(***************************************************************************)
(* Model of the workflow engines of petarkabashki/workflow-automator:      *)
(*   composable_engine (src/composable_engine.py), a generator that keeps  *)
(*   an explicit stack of machine contexts, and                            *)
(*   recursive_engine (src/recursive_engine.py), a generator that runs a   *)
(*   sub-machine as a nested recursive_engine generator.                   *)
(* The host is whoever calls next()/send() on the engine generator.  A     *)
(* state routine is a Python generator function; what it yields, and       *)
(* whether it returns or raises, is chosen freely at every advance.        *)
(***************************************************************************)
EXTENDS Integers, Sequences, FiniteSets, TLC

VARIABLES
    engine,          \* which engine function was called
    engine_stack,    \* composable_engine: engine_stack
    input_value,     \* composable_engine: input_value
    pc,              \* where the engine generator stands / is suspended
    yielded_value,   \* the value the last next(state_generator) returned
    rstack,          \* recursive_engine: the nested generator activations
    active,          \* recursive_engine: the activation that is running
    signal,          \* recursive_engine: what a nested generator hands up
    hostLog,         \* every item the engine generator yielded to the host
    routineLog,      \* every value a state routine yielded
    stepKind,        \* the branch of the code the last step executed
    advanced,        \* the routine instance the last next() advanced
    advances,        \* number of next(state_generator) calls on routines
    runner,          \* runner(): the call it is in and its locals, if it
                     \* is the host
    self             \* Engine (engine.py): the fields of the object

vars == <<engine, engine_stack, input_value, pc, yielded_value, rstack,
          active, signal, hostLog, routineLog, stepKind, advanced, advances,
          runner, self>>

\* Bound: how many times routines are advanced in one run.
MaxAdvances == 3

\* Python's None.
None == "None"

-----------------------------------------------------------------------------
\* Instruction records (dicts with an "instruction" key) and other values.

Instr(tag, ns, nsp, p, msg) ==
    [is_instruction |-> TRUE, instruction |-> tag, next_state |-> ns,
     next_state_for_parent |-> nsp, payload |-> p, message |-> msg]

\* A value that is no dict with an "instruction" key: the None of a bare
\* `yield`, which is also the None of an unset local.
NoneValue ==
    [is_instruction |-> FALSE, instruction |-> None, next_state |-> None,
     next_state_for_parent |-> None, payload |-> None, message |-> None]

Transition(t, p) == Instr("transition", t, None, p, None)

ParentTransitionInstr(t) == Instr("parent_transition", None, t, None, None)

RequestInput == Instr("request_input", None, None, None, "query")

HostInstr(tag) == Instr(tag, None, None, None, "m")

RunnerWarning(v) ==
    Instr("runner_warning", None, None, v.message, "unexpected value")

RunnerError(state) == Instr("runner_error", None, None, "exception", state)

TerminalNotify ==
    Instr("runner_notify", None, None, None, "reached __end__")

\* The machine definitions the engines are run on: state name -> "callable"
\* (a state function) or the name of a nested machine definition (a dict).
Callable == "callable"

MainMachine ==
    ("__start__" :> Callable) @@ ("A" :> Callable) @@ ("S" :> "sub")
        @@ ("N" :> "noend") @@ ("__end__" :> Callable)

SubMachine ==
    ("__start__" :> Callable) @@ ("A" :> Callable) @@ ("__end__" :> Callable)

\* A nested definition that lacks __end__.
NoEndMachine == ("__start__" :> Callable)

StateDef(m) ==
    CASE m = "main" -> MainMachine
      [] m = "sub" -> SubMachine
      [] OTHER -> NoEndMachine

IsDict(d) == d \in {"main", "sub", "noend"}

\* The checks on entry of an engine function: both names must be keys of
\* its state_definitions, else it raises ValueError.
ValidMachine(def) ==
    "__start__" \in DOMAIN StateDef(def) /\ "__end__" \in DOMAIN StateDef(def)

\* Inputs: the initial_state argument, what routines yield, what the host
\* sends.
InitialStates == {"__start__", "S", "N", "__end__", "X"}

Payloads == {None, "p1"}

TransitionTargets == {"A", "S", "__end__"}

\* "X" is a name no machine defines.
ParentTargets == {"A", "S", "__end__", "X"}

\* Tags of the final else branch; "runner_request_input" is the tag runner()
\* answers with send().
YieldTags == {"notify", "debug", "runner_request_input"}

YieldValues ==
    {Transition(t, p) : t \in TransitionTargets, p \in Payloads}
        \cup {ParentTransitionInstr(t) : t \in ParentTargets}
        \cup {RequestInput}
        \cup {HostInstr(tag) : tag \in YieldTags}
        \cup {NoneValue}

SendValues == {None, "r1", "r2"}

\* input_value: None, or the runner_input record built from the host's value.
NoInputValue == [instruction |-> None, input_data |-> None]

RunnerInput(v) == [instruction |-> "runner_input", input_data |-> v]

\* input_data handed to a state function.
InputData(iv) == [instruction_context |-> iv]

\* dict.get(key) with default None.
DictGet(d, k) == IF k \in DOMAIN d THEN d[k] ELSE None

\* Generator objects of state routines.  pos counts the resumes, received is
\* the value the last resume passed in.
NoGenerator ==
    [kind |-> None, state |-> None, pos |-> 0,
     input_data |-> InputData(NoInputValue), received |-> None]

NewGenerator(state, iv) ==
    [kind |-> "routine", state |-> state, pos |-> 0,
     input_data |-> InputData(iv), received |-> None]

\* next(state_generator) resumes the routine with None.
NextValue == None

Resumed(g) == [g EXCEPT !.pos = @ + 1, !.received = NextValue]

NoAdvanced == [state |-> None, depth |-> 0, gen |-> NoGenerator]

Last(s) == s[Len(s)]

-----------------------------------------------------------------------------
\* runner(engine_generator), the host of runner.py and composable_runner.py
\* (the same code in both files).  runner.pc is the call into the engine
\* generator the runner is in, or has just returned from when the engine is
\* suspended: "line11" is next(engine_generator), "line36" is
\* engine_generator.send(user_input).  "off" stands for a host that is not
\* runner() and resumes the generator as it likes.

\* debug_mode is runner()'s argument; printed is what the runner printed
\* for the item it handled last (None: nothing).
NoRunner ==
    [pc |-> "off", call |-> None, user_input |-> None, debug_mode |-> FALSE,
     printed |-> None]

\* The runner has entered its loop and called next() for the first time.
StartedRunner ==
    [pc |-> "line11", call |-> "next", user_input |-> None,
     debug_mode |-> FALSE, printed |-> None]

\* The same with debug_mode=True.
StartedRunnerDebug == [StartedRunner EXCEPT !.debug_mode = TRUE]

\* Lines 14-46: the branch of the if/elif chain that handles an item of
\* type instruction_type, named by what it prints.  Every branch prints;
\* runner_debug with debug_mode off falls through to the final else.
RunnerPrints(instruction_type, debug_mode) ==
    CASE instruction_type = "runner_notify" -> "notification"
      [] instruction_type = "runner_warning" -> "warning"
      [] instruction_type = "runner_error" -> "error"
      [] instruction_type = "runner_debug" /\ debug_mode -> "debug"
      [] instruction_type = "runner_request_input" -> "input_request"
      [] instruction_type = "runner_custom" -> "custom_action"
      [] OTHER -> "received_instruction"

\* What input() returns.
UserInputs == {"r1", "r2"}

\* The engine generator is suspended at one of its yields.
Suspended == pc \notin {"loop", "done", "raised"}

\* Line 12: instruction_for_runner["instruction"] needs a dict; on the item
\* a send() returned the runner does not look at all.
RunnerReads == runner.pc = "line11" => Last(hostLog).is_instruction

\* Lines 33-36: the branch that asks the user and sends the answer.
RunnerSends ==
    /\ runner.pc = "line11"
    /\ Last(hostLog).is_instruction
    /\ Last(hostLog).instruction = "runner_request_input"

\* The host resumes the suspended engine generator with value v.  For
\* runner(): after the item of a next() it handles the item and then sends
\* the user's input (line 36) or loops to next() (line 11), which passes
\* None; after a send() it ignores the item and loops to next().
HostResumes(v) ==
    IF runner.pc = "off"
    THEN runner' = runner
    ELSE /\ runner.pc \in {"line11", "line36"}
         /\ RunnerReads
         /\ IF RunnerSends
            THEN /\ v \in UserInputs
                 /\ runner' =
                        [runner EXCEPT
                            !.pc = "line36", !.call = "send",
                            !.user_input = v,
                            !.printed =
                                RunnerPrints(Last(hostLog).instruction,
                                             runner.debug_mode)]
            ELSE /\ v = NextValue
                 /\ runner' =
                        [runner EXCEPT
                            !.pc = "line11", !.call = "next",
                            !.printed =
                                IF runner.pc = "line11"
                                THEN RunnerPrints(Last(hostLog).instruction,
                                                  runner.debug_mode)
                                ELSE @]

\* The engine runs; the host is inside its call.
HostIdle == runner' = runner

-----------------------------------------------------------------------------
\* composable_engine

Frame(def, state) ==
    [state_def |-> def, current_state_name |-> state,
     state_generator |-> NoGenerator]

Top == engine_stack[Len(engine_stack)]

Below(stack) == SubSeq(stack, 1, Len(stack) - 1)

ReplaceTop(stack, f) == [stack EXCEPT ![Len(stack)] = f]

\* Mutant of Classify: a transition falls through to the final else branch.
ClassifyTransitionAsOther(v) ==
    IF v.is_instruction
    THEN CASE v.instruction = "parent_transition" -> "parent_transition"
           [] v.instruction = "request_input" -> "request_input"
           [] OTHER -> "other"
    ELSE "unexpected"

\* The if/elif chain on the yielded value.
Classify(v) ==
    IF v.is_instruction
    THEN CASE v.instruction = "transition" -> "transition"
           [] v.instruction = "parent_transition" -> "parent_transition"
           [] v.instruction = "request_input" -> "request_input"
           [] OTHER -> "other"
    ELSE "unexpected"

\* Mutant of LoopPc: the loop is not left when the stack is empty.
LoopPcNeverLeaves(stack) == "loop"

\* The `while engine_stack` test after an iteration: an empty stack leaves
\* the loop and the final yield delivers the terminal notify.
LoopPc(stack) == IF stack = <<>> THEN "y121" ELSE "loop"

\* Mutant of LoopLog: the final yield is missing.
LoopLogSilent(stack, log) == log

LoopLog(stack, log) ==
    IF stack = <<>> THEN Append(log, TerminalNotify) ELSE log

\* Mutant of CGen: every iteration instantiates the state function anew.
CGenAlwaysNew == NewGenerator(Top.current_state_name, input_value)

\* The generator the iteration advances: the frame's, or a new one.
CGen ==
    IF Top.state_generator = NoGenerator
    THEN NewGenerator(Top.current_state_name, input_value)
    ELSE Top.state_generator

CAdvancedStack ==
    ReplaceTop(engine_stack, [Top EXCEPT !.state_generator = Resumed(CGen)])

CRunning == engine = "composable" /\ pc = "loop" /\ engine_stack # <<>>

CCanAdvance ==
    /\ CRunning
    /\ Top.current_state_name \notin {None, "__end__"}
    /\ Top.current_state_name \in DOMAIN StateDef(Top.state_def)
    /\ \/ Top.state_generator # NoGenerator
       \/ StateDef(Top.state_def)[Top.current_state_name] = Callable
    /\ advances < MaxAdvances

CNoteAdvance ==
    /\ advanced' = [state |-> Top.current_state_name,
                    depth |-> Len(engine_stack), gen |-> Resumed(CGen)]
    /\ advances' = advances + 1

RUnchanged == UNCHANGED <<rstack, active, signal, self>>

\* Lines 20-22: the machine on top is finished.
CPopFinished ==
    /\ CRunning
    /\ Top.current_state_name \in {None, "__end__"}
    /\ engine_stack' = Below(engine_stack)
    /\ pc' = LoopPc(engine_stack')
    /\ hostLog' = LoopLog(engine_stack', hostLog)
    /\ stepKind' = IF Top.current_state_name = "__end__"
                   THEN "pop_end" ELSE "pop_none"
    /\ UNCHANGED <<engine, input_value, yielded_value, routineLog, advanced,
                   advances>>
    /\ RUnchanged
    /\ HostIdle

\* Line 25: state_def[current_state_name] of an undefined name raises
\* KeyError out of the generator.
CKeyError ==
    /\ CRunning
    /\ Top.current_state_name \notin {None, "__end__"}
    /\ Top.current_state_name \notin DOMAIN StateDef(Top.state_def)
    /\ pc' = "raised"
    /\ stepKind' = "key_error"
    /\ UNCHANGED <<engine, engine_stack, input_value, yielded_value, hostLog,
                   routineLog, advanced, advances>>
    /\ RUnchanged
    /\ HostIdle

\* Mutant of PushSubMachine: the parent frame is left with a live generator.
PushSubMachineLive(stack, def) ==
    Append(ReplaceTop(stack, [stack[Len(stack)] EXCEPT
                                 !.state_generator =
                                     NewGenerator(@.state, NoInputValue)]),
           Frame(def, "__start__"))

\* Mutant of PushSubMachine: the new frame starts at the parent's state name.
PushSubMachineAtParentState(stack, def) ==
    Append(stack, Frame(def, stack[Len(stack)].current_state_name))

\* Lines 28-37: the state is a sub-machine definition.
PushSubMachine(stack, def) == Append(stack, Frame(def, "__start__"))

CPushSubMachine ==
    /\ CRunning
    /\ Top.current_state_name \notin {None, "__end__"}
    /\ Top.current_state_name \in DOMAIN StateDef(Top.state_def)
    /\ Top.state_generator = NoGenerator
    /\ IsDict(StateDef(Top.state_def)[Top.current_state_name])
    /\ engine_stack' =
           PushSubMachine(engine_stack,
                          StateDef(Top.state_def)[Top.current_state_name])
    /\ pc' = "loop"
    /\ stepKind' = "push"
    /\ UNCHANGED <<engine, input_value, yielded_value, hostLog, routineLog,
                   advanced, advances>>
    /\ RUnchanged
    /\ HostIdle

\* Lines 61-63: next_state_name and instruction_result are set and the
\* iteration ends; both are reset at lines 48-51 of the next iteration.
CTransition ==
    /\ CCanAdvance
    /\ \E v \in YieldValues :
          /\ Classify(v) = "transition"
          /\ yielded_value' = v
          /\ routineLog' = Append(routineLog, v)
    /\ engine_stack' = CAdvancedStack
    /\ pc' = "loop"
    /\ stepKind' = "transition"
    /\ CNoteAdvance
    /\ UNCHANGED <<engine, input_value, hostLog>>
    /\ RUnchanged
    /\ HostIdle

\* Mutant of ParentTransition: the parent's state is not set.
ParentTransitionKeepsState(stack, v) == Below(stack)

\* Lines 65-74.
ParentTransition(stack, v) ==
    IF Len(stack) > 1
    THEN ReplaceTop(Below(stack),
                    [stack[Len(stack) - 1] EXCEPT
                        !.current_state_name = v.next_state_for_parent])
    ELSE <<>>

CParentTransition ==
    /\ CCanAdvance
    /\ \E v \in YieldValues :
          /\ Classify(v) = "parent_transition"
          /\ yielded_value' = v
          /\ routineLog' = Append(routineLog, v)
          /\ engine_stack' = ParentTransition(CAdvancedStack, v)
    /\ pc' = LoopPc(engine_stack')
    /\ hostLog' = LoopLog(engine_stack', hostLog)
    /\ stepKind' = "parent_transition"
    /\ CNoteAdvance
    /\ UNCHANGED <<engine, input_value>>
    /\ RUnchanged
    /\ HostIdle

\* Lines 76-78: the request is yielded to the host.
CRequestInput ==
    /\ CCanAdvance
    /\ \E v \in YieldValues :
          /\ Classify(v) = "request_input"
          /\ yielded_value' = v
          /\ routineLog' = Append(routineLog, v)
          /\ hostLog' = Append(hostLog, v)
    /\ engine_stack' = CAdvancedStack
    /\ pc' = "y78"
    /\ stepKind' = "request_input"
    /\ CNoteAdvance
    /\ UNCHANGED <<engine, input_value>>
    /\ RUnchanged
    /\ HostIdle

\* Lines 83-85.
COther ==
    /\ CCanAdvance
    /\ \E v \in YieldValues :
          /\ Classify(v) = "other"
          /\ yielded_value' = v
          /\ routineLog' = Append(routineLog, v)
          /\ hostLog' = Append(hostLog, v)
    /\ engine_stack' = CAdvancedStack
    /\ pc' = "y84"
    /\ stepKind' = "other"
    /\ CNoteAdvance
    /\ UNCHANGED <<engine, input_value>>
    /\ RUnchanged
    /\ HostIdle

\* Mutant of CUnexpected: the routine that yielded the unexpected value is
\* dropped, so that the state is entered anew.
CUnexpectedDropsRoutine ==
    /\ CCanAdvance
    /\ \E v \in YieldValues :
          /\ Classify(v) = "unexpected"
          /\ yielded_value' = v
          /\ routineLog' = Append(routineLog, v)
          /\ hostLog' = Append(hostLog, RunnerWarning(v))
    /\ engine_stack' =
           ReplaceTop(engine_stack,
                      [Top EXCEPT !.state_generator = NoGenerator])
    /\ pc' = "y89"
    /\ stepKind' = "unexpected"
    /\ CNoteAdvance
    /\ UNCHANGED <<engine, input_value>>
    /\ RUnchanged
    /\ HostIdle

\* Lines 88-91.
CUnexpected ==
    /\ CCanAdvance
    /\ \E v \in YieldValues :
          /\ Classify(v) = "unexpected"
          /\ yielded_value' = v
          /\ routineLog' = Append(routineLog, v)
          /\ hostLog' = Append(hostLog, RunnerWarning(v))
    /\ engine_stack' = CAdvancedStack
    /\ pc' = "y89"
    /\ stepKind' = "unexpected"
    /\ CNoteAdvance
    /\ UNCHANGED <<engine, input_value>>
    /\ RUnchanged
    /\ HostIdle

\* Lines 102-107: the state the frame gets when the routine has returned.
NextStateOnStop(last_instruction_from_state, instruction_result) ==
    IF last_instruction_from_state.is_instruction
          /\ last_instruction_from_state.instruction = "transition"
    THEN last_instruction_from_state.next_state
    ELSE IF instruction_result.is_instruction
              /\ instruction_result.instruction = "transition"
         THEN instruction_result.next_state
         ELSE None

\* Lines 94-110.  next() raised StopIteration before line 56, so
\* parent_transition_info, last_instruction_from_state and instruction_result
\* still hold the None of lines 49-51 of this iteration.
CStopIteration ==
    /\ CCanAdvance
    /\ engine_stack' =
           ReplaceTop(engine_stack,
               [Top EXCEPT !.current_state_name =
                               NextStateOnStop(NoneValue, NoneValue),
                           !.state_generator = NoGenerator])
    /\ input_value' = NoInputValue
    /\ pc' = "loop"
    /\ stepKind' = "stop"
    /\ CNoteAdvance
    /\ UNCHANGED <<engine, yielded_value, hostLog, routineLog>>
    /\ RUnchanged
    /\ HostIdle

\* Lines 113-114: the routine raised; the error is yielded to the host.
CException ==
    /\ CCanAdvance
    /\ engine_stack' = CAdvancedStack
    /\ hostLog' = Append(hostLog, RunnerError(Top.current_state_name))
    /\ pc' = "y114"
    /\ stepKind' = "exception"
    /\ CNoteAdvance
    /\ UNCHANGED <<engine, input_value, yielded_value, routineLog>>
    /\ RUnchanged
    /\ HostIdle

\* Mutant of CResumeAfterRequest: the value of the first resume is recorded
\* as the host's input.
CResumeAfterRequestRecords ==
    /\ engine = "composable" /\ pc = "y78"
    /\ hostLog' = Append(hostLog, NoneValue)
    /\ pc' = "y79"
    /\ stepKind' = "resume_request"
    /\ UNCHANGED <<engine, engine_stack, yielded_value, routineLog, advanced,
                   advances>>
    /\ RUnchanged
    /\ \E v \in SendValues : HostResumes(v) /\ input_value' = RunnerInput(v)

\* Line 79: resumed after the request, the engine yields once more (None);
\* the value of this resume is dropped.
CResumeAfterRequest ==
    /\ engine = "composable" /\ pc = "y78"
    /\ hostLog' = Append(hostLog, NoneValue)
    /\ pc' = "y79"
    /\ stepKind' = "resume_request"
    /\ UNCHANGED <<engine, engine_stack, input_value, yielded_value,
                   routineLog, advanced, advances>>
    /\ RUnchanged
    /\ \E v \in SendValues : HostResumes(v)

\* Lines 79-81: the value of this resume becomes input_value.
CReply ==
    /\ engine = "composable" /\ pc = "y79"
    /\ \E v \in SendValues :
          /\ input_value' = RunnerInput(v)
          /\ HostResumes(v)
    /\ pc' = "loop"
    /\ stepKind' = "reply"
    /\ UNCHANGED <<engine, engine_stack, yielded_value, hostLog, routineLog,
                   advanced, advances>>
    /\ RUnchanged

\* Lines 85 and 91: continue.
CResumeAfterYield ==
    /\ engine = "composable" /\ pc \in {"y84", "y89"}
    /\ pc' = "loop"
    /\ stepKind' = "resume"
    /\ UNCHANGED <<engine, engine_stack, input_value, yielded_value, hostLog,
                   routineLog, advanced, advances>>
    /\ RUnchanged
    /\ \E v \in SendValues : HostResumes(v)

\* Mutant of PopErrored: the error unwinds every machine.
PopErroredAll(stack) == <<>>

\* Lines 115-118.
PopErrored(stack) == Below(stack)

CResumeAfterError ==
    /\ engine = "composable" /\ pc = "y114"
    /\ engine_stack' = PopErrored(engine_stack)
    /\ pc' = LoopPc(engine_stack')
    /\ hostLog' = LoopLog(engine_stack', hostLog)
    /\ stepKind' = "resume_error"
    /\ UNCHANGED <<engine, input_value, yielded_value, routineLog, advanced,
                   advances>>
    /\ RUnchanged
    /\ \E v \in SendValues : HostResumes(v)

\* After line 121 the generator is exhausted.
CFinish ==
    /\ engine = "composable" /\ pc = "y121"
    /\ pc' = "done"
    /\ stepKind' = "finish"
    /\ UNCHANGED <<engine, engine_stack, input_value, yielded_value, hostLog,
                   routineLog, advanced, advances>>
    /\ RUnchanged
    /\ \E v \in SendValues : HostResumes(v)

-----------------------------------------------------------------------------
\* recursive_engine.  rstack[1] is the generator the host holds; rstack[k+1]
\* is the recursive_engine generator that rstack[k] runs as the state
\* "routine" of a sub-machine state.  next_state_name (line 39) is written
\* and never read, so it is not kept.

Activation(def, state) ==
    [state_def |-> def, current_state_name |-> state,
     input_value |-> NoInputValue, state_generator |-> NoGenerator,
     parent_transition_info |-> NoneValue,
     last_instruction_from_state |-> NoneValue,
     instruction_result |-> NoneValue, pc |-> "outer"]

\* Line 18: the generator of a sub-machine state is a nested engine.
SubEngineGenerator(state, iv) ==
    [kind |-> "engine", state |-> state, pos |-> 0,
     input_data |-> InputData(iv), received |-> None]

NoSignal == [kind |-> "none", value |-> NoneValue]

YieldSignal(v) == [kind |-> "yield", value |-> v]

StopSignal == [kind |-> "stop", value |-> NoneValue]

RaiseSignal == [kind |-> "raise", value |-> NoneValue]

\* Mutant of RClassify: a debug instruction is consumed like a transition.
RClassifyDebugConsumed(v) ==
    IF v.is_instruction
    THEN CASE v.instruction \in {"transition", "debug"} -> "transition"
           [] v.instruction = "parent_transition" -> "parent_transition"
           [] v.instruction = "request_input" -> "request_input"
           [] OTHER -> "other"
    ELSE "unexpected"

\* The if/elif chain on the yielded value, lines 35-58.
RClassify(v) ==
    IF v.is_instruction
    THEN CASE v.instruction = "transition" -> "transition"
           [] v.instruction = "parent_transition" -> "parent_transition"
           [] v.instruction = "request_input" -> "request_input"
           [] OTHER -> "other"
    ELSE "unexpected"

\* Mutant of RNextStateOnStop: a routine that returns without a transition
\* falls through to state A.
RNextStateOnStopFallsThrough(info, last, result) ==
    IF info.is_instruction
    THEN info.next_state_for_parent
    ELSE IF last.is_instruction /\ last.instruction = "transition"
         THEN last.next_state
         ELSE IF result.is_instruction /\ result.instruction = "transition"
              THEN result.next_state
              ELSE "A"

\* Lines 62-69: the state after the routine has returned, from
\* parent_transition_info, last_instruction_from_state, instruction_result.
RNextStateOnStop(info, last, result) ==
    IF info.is_instruction
    THEN info.next_state_for_parent
    ELSE IF last.is_instruction /\ last.instruction = "transition"
         THEN last.next_state
         ELSE IF result.is_instruction /\ result.instruction = "transition"
              THEN result.next_state
              ELSE None

RRunning(k) ==
    /\ engine = "recursive" /\ pc = "loop" /\ active = k
    /\ k \in 1..Len(rstack)

\* Activation k yields x: to the host when it is the outermost generator,
\* else as the result of its caller's next(state_generator).
RYieldUp(k, x) ==
    IF k = 1
    THEN /\ hostLog' = Append(hostLog, x)
         /\ active' = 0 /\ pc' = "host" /\ signal' = NoSignal
    ELSE /\ hostLog' = hostLog
         /\ active' = k - 1 /\ pc' = "loop" /\ signal' = YieldSignal(x)

\* Activation k is resumed: the outermost by the host with a value of its
\* choice, a nested one by line 32 of its caller, which passes None.
RResumable(k) ==
    /\ engine = "recursive"
    /\ k \in 1..Len(rstack)
    /\ IF k = 1 THEN pc = "host" /\ active = 0
                ELSE pc = "loop" /\ active = k

RSent(k) == IF k = 1 THEN SendValues ELSE {NextValue}

\* What the next(state_generator) of activation k produces: a state routine
\* yields any value, returns or raises; a nested engine produces what it
\* handed up.
ROutcomes(k) ==
    IF rstack[k].pc = "inner" /\ rstack[k].state_generator.kind = "routine"
          /\ advances < MaxAdvances
    THEN {YieldSignal(v) : v \in YieldValues} \cup {StopSignal, RaiseSignal}
    ELSE IF rstack[k].pc = "waiting" /\ signal.kind # "none"
         THEN {signal}
         ELSE {}

RFromRoutine(k) == rstack[k].pc = "inner"

RAdvancedAct(k) ==
    IF RFromRoutine(k)
    THEN [rstack[k] EXCEPT !.state_generator = Resumed(@)]
    ELSE rstack[k]

RNote(k, o) ==
    /\ advances' = IF RFromRoutine(k) THEN advances + 1 ELSE advances
    /\ advanced' = IF RFromRoutine(k)
                   THEN [state |-> rstack[k].current_state_name, depth |-> k,
                         gen |-> Resumed(rstack[k].state_generator)]
                   ELSE advanced
    /\ routineLog' = IF RFromRoutine(k) /\ o.kind = "yield"
                     THEN Append(routineLog, o.value) ELSE routineLog
    /\ yielded_value' = IF o.kind = "yield" THEN o.value ELSE yielded_value

CUnchanged == UNCHANGED <<engine_stack, input_value, self>>

\* Activation 1 is resumed by the host, a nested one by its caller.
RHost(k) ==
    IF k = 1 THEN \E v \in SendValues : HostResumes(v) ELSE runner' = runner

RHostWith(k, v) == IF k = 1 THEN HostResumes(v) ELSE runner' = runner

\* Line 11 fails and line 82 yields the terminal notify.
RFinished ==
    \E k \in 1..Len(rstack) :
        /\ RRunning(k) /\ rstack[k].pc = "outer"
        /\ rstack[k].current_state_name \in {None, "__end__"}
        /\ rstack' = [rstack EXCEPT ![k].pc = "y82"]
        /\ RYieldUp(k, TerminalNotify)
        /\ stepKind' = "terminal"
        /\ UNCHANGED <<engine, yielded_value, routineLog, advanced, advances>>
        /\ CUnchanged
        /\ HostIdle

\* Line 12: KeyError leaves the generator; in a nested engine it reaches the
\* caller's next(state_generator).
RKeyError ==
    \E k \in 1..Len(rstack) :
        /\ RRunning(k) /\ rstack[k].pc = "outer"
        /\ rstack[k].current_state_name \notin {None, "__end__"}
        /\ rstack[k].current_state_name
               \notin DOMAIN StateDef(rstack[k].state_def)
        /\ rstack' = SubSeq(rstack, 1, k - 1)
        /\ IF k = 1
           THEN pc' = "raised" /\ active' = 0 /\ signal' = NoSignal
           ELSE pc' = "loop" /\ active' = k - 1 /\ signal' = RaiseSignal
        /\ stepKind' = "key_error"
        /\ UNCHANGED <<engine, yielded_value, hostLog, routineLog, advanced,
                       advances>>
        /\ CUnchanged
        /\ HostIdle

\* Mutant of EnterState: a generator the activation still holds is reused.
EnterStateReusesHandle(a) ==
    [a EXCEPT !.state_generator =
                  IF @.kind = "routine"
                  THEN @
                  ELSE NewGenerator(a.current_state_name, a.input_value),
              !.parent_transition_info = NoneValue,
              !.last_instruction_from_state = NoneValue,
              !.instruction_result = NoneValue,
              !.pc = "inner"]

\* Lines 14-15 and 22-28: a state function is instantiated.
EnterState(a) ==
    [a EXCEPT !.state_generator =
                  NewGenerator(a.current_state_name, a.input_value),
              !.parent_transition_info = NoneValue,
              !.last_instruction_from_state = NoneValue,
              !.instruction_result = NoneValue,
              !.pc = "inner"]

REnterState ==
    \E k \in 1..Len(rstack) :
        /\ RRunning(k) /\ rstack[k].pc = "outer"
        /\ rstack[k].current_state_name \notin {None, "__end__"}
        /\ rstack[k].current_state_name
               \in DOMAIN StateDef(rstack[k].state_def)
        /\ StateDef(rstack[k].state_def)[rstack[k].current_state_name]
               = Callable
        /\ rstack' = Append(SubSeq(rstack, 1, k - 1), EnterState(rstack[k]))
        /\ stepKind' = "enter"
        /\ UNCHANGED <<engine, pc, active, signal, yielded_value, hostLog,
                       routineLog, advanced, advances>>
        /\ CUnchanged
        /\ HostIdle

\* Lines 16-18 and 22-28: the state is a sub-machine; a nested
\* recursive_engine generator is created (it runs at the first next()).
EnterSubMachine(a) ==
    [a EXCEPT !.state_generator =
                  SubEngineGenerator(a.current_state_name, a.input_value),
              !.parent_transition_info = NoneValue,
              !.last_instruction_from_state = NoneValue,
              !.instruction_result = NoneValue,
              !.pc = "inner"]

REnterSubMachine ==
    \E k \in 1..Len(rstack) :
        /\ RRunning(k) /\ rstack[k].pc = "outer"
        /\ rstack[k].current_state_name \notin {None, "__end__"}
        /\ rstack[k].current_state_name
               \in DOMAIN StateDef(rstack[k].state_def)
        /\ IsDict(StateDef(rstack[k].state_def)[rstack[k].current_state_name])
        /\ rstack' =
               SubSeq(rstack, 1, k - 1)
                   \o <<EnterSubMachine(rstack[k]),
                        Activation(StateDef(rstack[k].state_def)
                                       [rstack[k].current_state_name],
                                   "__start__")>>
        /\ stepKind' = "enter_sub"
        /\ UNCHANGED <<engine, pc, active, signal, yielded_value, hostLog,
                       routineLog, advanced, advances>>
        /\ CUnchanged
        /\ HostIdle

\* Line 32 on a nested engine: control passes to it.
RCallSub ==
    \E k \in 1..Len(rstack) :
        /\ RRunning(k) /\ rstack[k].pc = "inner"
        /\ rstack[k].state_generator.kind = "engine"
        /\ k < Len(rstack)
        /\ ValidMachine(rstack[k + 1].state_def)
        /\ rstack' = [rstack EXCEPT ![k].pc = "waiting",
                                    ![k].state_generator = Resumed(@)]
        /\ active' = k + 1
        /\ signal' = NoSignal
        /\ stepKind' = "call_sub"
        /\ UNCHANGED <<engine, pc, yielded_value, hostLog, routineLog,
                       advanced, advances>>
        /\ CUnchanged
        /\ HostIdle

\* Line 32 on a nested engine whose definition fails the checks of lines
\* 3-6: its first next() raises ValueError into the caller.
RInvalidMachine ==
    \E k \in 1..Len(rstack) :
        /\ RRunning(k) /\ rstack[k].pc = "inner"
        /\ rstack[k].state_generator.kind = "engine"
        /\ k < Len(rstack)
        /\ ~ValidMachine(rstack[k + 1].state_def)
        /\ rstack' = [SubSeq(rstack, 1, k) EXCEPT
                          ![k].pc = "waiting",
                          ![k].state_generator = Resumed(@)]
        /\ signal' = RaiseSignal
        /\ stepKind' = "invalid_machine"
        /\ UNCHANGED <<engine, pc, active, yielded_value, hostLog, routineLog,
                       advanced, advances>>
        /\ CUnchanged
        /\ HostIdle

\* Lines 38-40.
RTransition ==
    \E k \in 1..Len(rstack) : \E o \in ROutcomes(k) :
        /\ RRunning(k)
        /\ o.kind = "yield" /\ RClassify(o.value) = "transition"
        /\ rstack' = [rstack EXCEPT ![k] =
               [RAdvancedAct(k) EXCEPT
                   !.last_instruction_from_state = o.value,
                   !.instruction_result = o.value,
                   !.pc = "inner"]]
        /\ signal' = NoSignal
        /\ stepKind' = "transition"
        /\ RNote(k, o)
        /\ UNCHANGED <<engine, pc, active, hostLog>>
        /\ CUnchanged
        /\ HostIdle

\* Lines 42-45: break out of the inner loop; current_state_name is not
\* touched, so line 11 runs for the same state again.
RParentTransition ==
    \E k \in 1..Len(rstack) : \E o \in ROutcomes(k) :
        /\ RRunning(k)
        /\ o.kind = "yield" /\ RClassify(o.value) = "parent_transition"
        /\ rstack' = [rstack EXCEPT ![k] =
               [RAdvancedAct(k) EXCEPT
                   !.last_instruction_from_state = o.value,
                   !.parent_transition_info = o.value,
                   !.instruction_result = o.value,
                   !.pc = "outer"]]
        /\ signal' = NoSignal
        /\ stepKind' = "parent_transition"
        /\ RNote(k, o)
        /\ UNCHANGED <<engine, pc, active, hostLog>>
        /\ CUnchanged
        /\ HostIdle

\* Lines 47-48.
RRequestInput ==
    \E k \in 1..Len(rstack) : \E o \in ROutcomes(k) :
        /\ RRunning(k)
        /\ o.kind = "yield" /\ RClassify(o.value) = "request_input"
        /\ rstack' = [rstack EXCEPT ![k] =
               [RAdvancedAct(k) EXCEPT
                   !.last_instruction_from_state = o.value,
                   !.pc = "y48"]]
        /\ RYieldUp(k, o.value)
        /\ stepKind' = "request_input"
        /\ RNote(k, o)
        /\ UNCHANGED <<engine>>
        /\ CUnchanged
        /\ HostIdle

\* Lines 52-53.
ROther ==
    \E k \in 1..Len(rstack) : \E o \in ROutcomes(k) :
        /\ RRunning(k)
        /\ o.kind = "yield" /\ RClassify(o.value) = "other"
        /\ rstack' = [rstack EXCEPT ![k] =
               [RAdvancedAct(k) EXCEPT
                   !.last_instruction_from_state = o.value,
                   !.pc = "y53"]]
        /\ RYieldUp(k, o.value)
        /\ stepKind' = "other"
        /\ RNote(k, o)
        /\ UNCHANGED <<engine>>
        /\ CUnchanged
        /\ HostIdle

\* Lines 56-57.
RUnexpected ==
    \E k \in 1..Len(rstack) : \E o \in ROutcomes(k) :
        /\ RRunning(k)
        /\ o.kind = "yield" /\ RClassify(o.value) = "unexpected"
        /\ rstack' = [rstack EXCEPT ![k] =
               [RAdvancedAct(k) EXCEPT
                   !.last_instruction_from_state = o.value,
                   !.pc = "y57"]]
        /\ RYieldUp(k, RunnerWarning(o.value))
        /\ stepKind' = "unexpected"
        /\ RNote(k, o)
        /\ UNCHANGED <<engine>>
        /\ CUnchanged
        /\ HostIdle

\* Lines 61-71.
StopIteration(a) ==
    [a EXCEPT !.current_state_name =
                  RNextStateOnStop(a.parent_transition_info,
                                   a.last_instruction_from_state,
                                   a.instruction_result),
              !.input_value = NoInputValue,
              !.pc = "outer"]

RStopIteration ==
    \E k \in 1..Len(rstack) : \E o \in ROutcomes(k) :
        /\ RRunning(k)
        /\ o.kind = "stop"
        /\ rstack' = [rstack EXCEPT ![k] = StopIteration(RAdvancedAct(k))]
        /\ signal' = NoSignal
        /\ stepKind' = "stop"
        /\ RNote(k, o)
        /\ UNCHANGED <<engine, pc, active, hostLog>>
        /\ CUnchanged
        /\ HostIdle

\* Lines 77-78: the routine, or the nested engine, raised.
RException ==
    \E k \in 1..Len(rstack) : \E o \in ROutcomes(k) :
        /\ RRunning(k)
        /\ o.kind = "raise"
        /\ rstack' = [rstack EXCEPT ![k] =
               [RAdvancedAct(k) EXCEPT !.pc = "y78"]]
        /\ RYieldUp(k, RunnerError(rstack[k].current_state_name))
        /\ stepKind' = "exception"
        /\ RNote(k, o)
        /\ UNCHANGED <<engine>>
        /\ CUnchanged
        /\ HostIdle

\* Line 49: resumed after the request, the engine yields once more (None).
RResumeAfterRequest ==
    \E k \in 1..Len(rstack) :
        /\ RResumable(k) /\ rstack[k].pc = "y48"
        /\ rstack' = [rstack EXCEPT ![k].pc = "y49"]
        /\ RYieldUp(k, NoneValue)
        /\ stepKind' = "resume_request"
        /\ UNCHANGED <<engine, yielded_value, routineLog, advanced, advances>>
        /\ CUnchanged
        /\ RHost(k)

\* Lines 49-50: the value of this resume becomes input_value.
RReply ==
    \E k \in 1..Len(rstack) : \E v \in RSent(k) :
        /\ RResumable(k) /\ rstack[k].pc = "y49"
        /\ rstack' = [rstack EXCEPT ![k].input_value = RunnerInput(v),
                                    ![k].pc = "inner"]
        /\ pc' = "loop" /\ active' = k /\ signal' = NoSignal
        /\ stepKind' = "reply"
        /\ UNCHANGED <<engine, yielded_value, hostLog, routineLog, advanced,
                       advances>>
        /\ CUnchanged
        /\ RHostWith(k, v)

\* Lines 54 and 58: instruction_result = yielded_value.
RResumeAfterYield ==
    \E k \in 1..Len(rstack) :
        /\ RResumable(k) /\ rstack[k].pc \in {"y53", "y57"}
        /\ rstack' = [rstack EXCEPT
               ![k].instruction_result =
                   rstack[k].last_instruction_from_state,
               ![k].pc = "inner"]
        /\ pc' = "loop" /\ active' = k /\ signal' = NoSignal
        /\ stepKind' = "resume"
        /\ UNCHANGED <<engine, yielded_value, hostLog, routineLog, advanced,
                       advances>>
        /\ CUnchanged
        /\ RHost(k)

\* Lines 79-82: the machine halts and the final yield follows.
RResumeAfterError ==
    \E k \in 1..Len(rstack) :
        /\ RResumable(k) /\ rstack[k].pc = "y78"
        /\ rstack' = [rstack EXCEPT ![k].current_state_name = None,
                                    ![k].pc = "y82"]
        /\ RYieldUp(k, TerminalNotify)
        /\ stepKind' = "resume_error"
        /\ UNCHANGED <<engine, yielded_value, routineLog, advanced, advances>>
        /\ CUnchanged
        /\ RHost(k)

\* After line 82 the generator is exhausted: StopIteration for its caller.
RReturn ==
    \E k \in 1..Len(rstack) :
        /\ RResumable(k) /\ rstack[k].pc = "y82"
        /\ rstack' = SubSeq(rstack, 1, k - 1)
        /\ IF k = 1
           THEN pc' = "done" /\ active' = 0 /\ signal' = NoSignal
           ELSE pc' = "loop" /\ active' = k - 1 /\ signal' = StopSignal
        /\ stepKind' = "finish"
        /\ UNCHANGED <<engine, yielded_value, hostLog, routineLog, advanced,
                       advances>>
        /\ CUnchanged
        /\ RHost(k)

-----------------------------------------------------------------------------
\* Engine (src/engine.py), the graph-driven engine.  `self` holds the fields
\* of the Engine object: self.states (a list) and self.transitions (a dict)
\* are fixed at construction, the others change while start() and run() are
\* driven.  pc is "constructed" before start(), "no_generator" when start()
\* returned None, and otherwise the yield at which the generator run() is
\* suspended.

\* Engine.__init__ (lines 38-49) without arguments: an object that is not
\* run.
NoEngine ==
    [states |-> <<>>, transitions |-> <<>>, current_state |-> None,
     state_gen |-> NoGenerator, instruction_queue |-> <<>>]

\* Engine.__init__ (lines 38-49) with the lists and dict of a graph.
EngineInit(g) ==
    [NoEngine EXCEPT !.states = g.states, !.transitions = g.transitions]

Edge(dest, cond) == [destination |-> dest, condition |-> cond]

\* The graph of test_conditional_transition (__start__ -> a [OK],
\* __start__ -> b [NOK], a -> __end__, b -> __end__) with the state
\* process_data of test_run_method, whose only edge carries a condition
\* (process_data -> __end__ [OK]).
GraphStates == <<"__start__", "a", "b", "process_data", "__end__">>

GraphTransitions ==
    ("__start__" :> <<Edge("a", "OK"), Edge("b", "NOK")>>)
        @@ ("a" :> <<Edge("__end__", "")>>)
        @@ ("b" :> <<Edge("__end__", "")>>)
        @@ ("process_data" :> <<Edge("__end__", "OK")>>)

Graph(states, transitions) == [states |-> states, transitions |-> transitions]

\* The (states, transitions) an Engine is constructed with: the graph above;
\* the same graph without __start__, where a, b and process_data have no
\* incoming transition; process_data -> __end__ [OK] alone; the single state
\* __end__; no states at all; and the cycle a -> b -> a, in which every state
\* has an incoming transition.
Graphs ==
    { Graph(GraphStates, GraphTransitions),
      Graph(<<"a", "b", "process_data", "__end__">>,
            ("a" :> <<Edge("__end__", "")>>)
                @@ ("b" :> <<Edge("__end__", "")>>)
                @@ ("process_data" :> <<Edge("__end__", "OK")>>)),
      Graph(<<"process_data", "__end__">>,
            ("process_data" :> <<Edge("__end__", "OK")>>)),
      Graph(<<"__end__">>, <<>>),
      Graph(<<>>, <<>>),
      Graph(<<"a", "b">>,
            ("a" :> <<Edge("b", "")>>) @@ ("b" :> <<Edge("a", "")>>)) }

\* `name in self.states`.
InStates(e, name) == \E i \in DOMAIN e.states : e.states[i] = name

\* Lines 122-124: the destinations of all transitions.
incoming_states(e) ==
    UNION {{e.transitions[src][i].destination :
                i \in DOMAIN e.transitions[src]} :
            src \in DOMAIN e.transitions}

\* Line 125: the positions in self.states of the states without an incoming
\* transition.
initial_states(e) ==
    {i \in DOMAIN e.states : e.states[i] \notin incoming_states(e)}

\* _find_initial_state (lines 109-132): __start__ if it is a state, else the
\* first state without an incoming transition, else None.
find_initial_state(e) ==
    IF InStates(e, "__start__") THEN "__start__"
    ELSE IF initial_states(e) = {} THEN None
    ELSE e.states[CHOOSE i \in initial_states(e) :
                      \A j \in initial_states(e) : i <= j]

\* The names for which hasattr(self.state_functions, name) holds.
StateFunctions == {"__start__", "a", "process_data"}

\* self.max_queue_size as passed to the constructor.
max_queue_size == 2

\* Bounds: send_instruction calls that queue an instruction, and resumes
\* of line 245 that pass no (instruction, context) pair.
MaxInstructions == 2

MaxBadSends == 1

\* The tuples run() yields, and the None of a bare yield.
GItem(tag, value) == [tag |-> tag, value |-> value]

NoItem == GItem(None, None)

StateChange(s) == GItem("state_change", s)

\* What a state routine yields in answer to send((instruction, context)).
GTargets == {"a", "b", "__end__", "X"}

GYieldValues ==
    {StateChange(t) : t \in GTargets} \cup {GItem("OK", None), NoItem}

\* The first value a routine yields, which priming consumes.
PrimeValue == GItem("init", None)

\* What the host passes when it resumes line 245: None (next()), or "go",
\* which stands for the pair ("go", None).
GSendValues == {None, "go"}

\* The (instruction, context) pairs a host queues with send_instruction.
QueuedInstructions == {GItem("ping", None), GItem("pong", None)}

Outgoing(s) ==
    IF s \in DOMAIN self.transitions THEN self.transitions[s] ELSE <<>>

GCount(tag, value) ==
    Cardinality({i \in DOMAIN hostLog : hostLog[i] = GItem(tag, value)})

GUnchanged ==
    UNCHANGED <<engine, engine_stack, input_value, yielded_value, rstack,
                active, signal, runner>>

GRunning == engine = "graph" /\ pc = "loop"

\* state_gen.send((instruction, context)) is possible.
GCanSend ==
    /\ engine = "graph" /\ pc = "y245"
    /\ advances < MaxAdvances

GSent(g, v) == [g EXCEPT !.pos = @ + 1, !.received = v]

GNoteAdvance(g) ==
    /\ advanced' = [state |-> self.current_state, depth |-> 1, gen |-> g]
    /\ advances' = advances + 1

\* Mutant of GStart: start() looks for a state without an incoming
\* transition before it looks for __start__.
GStartPrefersNoIncoming ==
    /\ engine = "graph" /\ pc = "constructed"
    /\ LET e == [self EXCEPT !.states =
                    SelectSeq(self.states, LAMBDA n : n # "__start__")]
           initial_state == IF initial_states(self) # {}
                            THEN find_initial_state(e)
                            ELSE find_initial_state(self)
       IN  IF self.states = <<>> \/ initial_state = None
           THEN /\ pc' = "no_generator"
                /\ self' = self
           ELSE /\ pc' = "created"
                /\ self' = [self EXCEPT !.current_state = initial_state]
    /\ stepKind' = "start"
    /\ UNCHANGED <<hostLog, routineLog, advanced, advances>>
    /\ GUnchanged

\* start() (lines 86-107): None when there are no states or no initial
\* state; else current_state is set and the generator run() is returned,
\* not yet started.
GStart ==
    /\ engine = "graph" /\ pc = "constructed"
    /\ LET initial_state == find_initial_state(self)
       IN  IF self.states = <<>> \/ initial_state = None
           THEN /\ pc' = "no_generator"
                /\ self' = self
           ELSE /\ pc' = "created"
                /\ self' = [self EXCEPT !.current_state = initial_state]
    /\ stepKind' = "start"
    /\ UNCHANGED <<hostLog, routineLog, advanced, advances>>
    /\ GUnchanged

\* Line 220: the first next() yields the initial state_change.
GBegin ==
    /\ engine = "graph" /\ pc = "created"
    /\ hostLog' = Append(hostLog, StateChange(self.current_state))
    /\ pc' = "y220"
    /\ stepKind' = "begin"
    /\ UNCHANGED <<self, routineLog, advanced, advances>>
    /\ GUnchanged

\* Lines 223-227: starting at __end__ returns at once.
GAfterStart ==
    /\ engine = "graph" /\ pc = "y220"
    /\ pc' = IF self.current_state = "__end__" THEN "done" ELSE "loop"
    /\ stepKind' = "after_start"
    /\ UNCHANGED <<self, hostLog, routineLog, advanced, advances>>
    /\ GUnchanged

\* Mutant of GQueued: the newest queued instruction is yielded first.
GQueuedNewestFirst ==
    /\ GRunning
    /\ self.instruction_queue # <<>>
    /\ self' = [self EXCEPT !.instruction_queue = SubSeq(@, 1, Len(@) - 1)]
    /\ hostLog' = Append(hostLog, Last(self.instruction_queue))
    /\ pc' = "y232"
    /\ stepKind' = "queued"
    /\ UNCHANGED <<routineLog, advanced, advances>>
    /\ GUnchanged

\* Lines 229-233: a queued external instruction is yielded first.
GQueued ==
    /\ GRunning
    /\ self.instruction_queue # <<>>
    /\ self' = [self EXCEPT !.instruction_queue = Tail(@)]
    /\ hostLog' = Append(hostLog, Head(self.instruction_queue))
    /\ pc' = "y232"
    /\ stepKind' = "queued"
    /\ UNCHANGED <<routineLog, advanced, advances>>
    /\ GUnchanged

\* Lines 236-241 with 281-283: no function for the state.
GNoFunction ==
    /\ GRunning
    /\ self.instruction_queue = <<>>
    /\ self.state_gen = NoGenerator
    /\ self.current_state \notin StateFunctions
    /\ hostLog' = Append(hostLog, GItem("error", "Failed to initialize state"))
    /\ pc' = "y240"
    /\ stepKind' = "no_function"
    /\ UNCHANGED <<self, routineLog, advanced, advances>>
    /\ GUnchanged

\* Lines 236-241 with 288-298: the routine raised, or returned, when primed.
GPrimeFailed ==
    /\ GRunning
    /\ self.instruction_queue = <<>>
    /\ self.state_gen = NoGenerator
    /\ self.current_state \in StateFunctions
    /\ advances < MaxAdvances
    /\ hostLog' = Append(hostLog, GItem("error", "Failed to initialize state"))
    /\ pc' = "y240"
    /\ stepKind' = "prime_failed"
    /\ GNoteAdvance(Resumed(NewGenerator(self.current_state, NoInputValue)))
    /\ UNCHANGED <<self, routineLog>>
    /\ GUnchanged

\* Mutant of GPrimed: the value the routine yields when primed is handed to
\* the host.
GPrimedDelivers ==
    /\ GRunning
    /\ self.instruction_queue = <<>>
    /\ self.state_gen = NoGenerator
    /\ self.current_state \in StateFunctions
    /\ advances < MaxAdvances
    /\ self' = [self EXCEPT !.state_gen =
                   Resumed(NewGenerator(self.current_state, NoInputValue))]
    /\ routineLog' = Append(routineLog, PrimeValue)
    /\ hostLog' = Append(hostLog, PrimeValue)
    /\ pc' = "y245"
    /\ stepKind' = "primed"
    /\ GNoteAdvance(self'.state_gen)
    /\ GUnchanged

\* Lines 236-237 with 285-292, then line 245: the routine is instantiated
\* and primed (its first yield is dropped) and the engine waits for an
\* instruction.
GPrimed ==
    /\ GRunning
    /\ self.instruction_queue = <<>>
    /\ self.state_gen = NoGenerator
    /\ self.current_state \in StateFunctions
    /\ advances < MaxAdvances
    /\ self' = [self EXCEPT !.state_gen =
                   Resumed(NewGenerator(self.current_state, NoInputValue))]
    /\ routineLog' = Append(routineLog, PrimeValue)
    /\ hostLog' = Append(hostLog, NoItem)
    /\ pc' = "y245"
    /\ stepKind' = "primed"
    /\ GNoteAdvance(self'.state_gen)
    /\ GUnchanged

\* Line 245 with a generator at hand.
GAwait ==
    /\ GRunning
    /\ self.instruction_queue = <<>>
    /\ self.state_gen # NoGenerator
    /\ hostLog' = Append(hostLog, NoItem)
    /\ pc' = "y245"
    /\ stepKind' = "await"
    /\ UNCHANGED <<self, routineLog, advanced, advances>>
    /\ GUnchanged

\* Line 241: break after the failed initialisation.
GAfterFailed ==
    /\ engine = "graph" /\ pc = "y240"
    /\ pc' = "done"
    /\ stepKind' = "after_failed"
    /\ UNCHANGED <<self, hostLog, routineLog, advanced, advances>>
    /\ GUnchanged

\* Mutant of ResponsePc: no break after the state_change to __end__.
ResponsePcNoBreak(response) == "y257"

\* Lines 251-257: the response is yielded; a state_change to __end__ is
\* followed by break.
ResponsePc(response) ==
    IF response = StateChange("__end__") THEN "y253" ELSE "y257"

\* Lines 245 and 259-261: resumed without an (instruction, context) pair,
\* the unpacking raises TypeError and the error is yielded.
GBadInstruction ==
    /\ engine = "graph" /\ pc = "y245"
    /\ GCount("error", "cannot unpack") < MaxBadSends
    /\ \E v \in GSendValues : v = None
    /\ hostLog' = Append(hostLog, GItem("error", "cannot unpack"))
    /\ pc' = "y261"
    /\ stepKind' = "bad_instruction"
    /\ UNCHANGED <<self, routineLog, advanced, advances>>
    /\ GUnchanged

\* Lines 167-178: the routine answers ('state_change', new_state) with a
\* new_state of self.states.
GStateChange ==
    /\ GCanSend
    /\ \E v \in GSendValues \ {None} : \E r \in GYieldValues :
          /\ r.tag = "state_change" /\ InStates(self, r.value)
          /\ self' = [self EXCEPT !.current_state = r.value,
                                  !.state_gen = NoGenerator]
          /\ routineLog' = Append(routineLog, r)
          /\ hostLog' = Append(hostLog, StateChange(r.value))
          /\ pc' = ResponsePc(StateChange(r.value))
          /\ GNoteAdvance(GSent(self.state_gen, v))
    /\ stepKind' = "state_change"
    /\ GUnchanged

\* Mutant of GInvalidState: the routine that asked for an unknown state is
\* dropped.
GInvalidStateClearsGenerator ==
    /\ GCanSend
    /\ \E v \in GSendValues \ {None} : \E r \in GYieldValues :
          /\ r.tag = "state_change" /\ ~InStates(self, r.value)
          /\ self' = [self EXCEPT !.state_gen = NoGenerator]
          /\ routineLog' = Append(routineLog, r)
          /\ hostLog' = Append(hostLog, GItem("error", "Invalid state"))
          /\ GNoteAdvance(GSent(self.state_gen, v))
    /\ pc' = "y257"
    /\ stepKind' = "invalid_state"
    /\ GUnchanged

\* Lines 167-181: new_state is not in self.states.
GInvalidState ==
    /\ GCanSend
    /\ \E v \in GSendValues \ {None} : \E r \in GYieldValues :
          /\ r.tag = "state_change" /\ ~InStates(self, r.value)
          /\ self' = [self EXCEPT !.state_gen = GSent(@, v)]
          /\ routineLog' = Append(routineLog, r)
          /\ hostLog' = Append(hostLog, GItem("error", "Invalid state"))
          /\ GNoteAdvance(GSent(self.state_gen, v))
    /\ pc' = "y257"
    /\ stepKind' = "invalid_state"
    /\ GUnchanged

\* Lines 182-184: any other tuple is passed through.
GPassThrough ==
    /\ GCanSend
    /\ \E v \in GSendValues \ {None} : \E r \in GYieldValues :
          /\ r.tag \notin {"state_change", None}
          /\ self' = [self EXCEPT !.state_gen = GSent(@, v)]
          /\ routineLog' = Append(routineLog, r)
          /\ hostLog' = Append(hostLog, r)
          /\ pc' = ResponsePc(r)
          /\ GNoteAdvance(GSent(self.state_gen, v))
    /\ stepKind' = "pass_through"
    /\ GUnchanged

\* Lines 182-184, 251 and 259-261: the routine yields None, response[0]
\* raises TypeError and the error is yielded.
GNoneResponse ==
    /\ GCanSend
    /\ \E v \in GSendValues \ {None} : \E r \in GYieldValues :
          /\ r = NoItem
          /\ self' = [self EXCEPT !.state_gen = GSent(@, v)]
          /\ routineLog' = Append(routineLog, r)
          /\ GNoteAdvance(GSent(self.state_gen, v))
    /\ hostLog' = Append(hostLog, GItem("error", "not subscriptable"))
    /\ pc' = "y261"
    /\ stepKind' = "none_response"
    /\ GUnchanged

\* Mutant of AutoTransition: a single outgoing transition is taken whatever
\* its condition.
AutoTransitionAnySingle(s) ==
    IF Len(Outgoing(s)) = 1 THEN Outgoing(s)[1].destination ELSE s

\* Lines 190-197: with exactly one outgoing transition that has no
\* condition the engine moves to its destination.
AutoTransition(s) ==
    IF Len(Outgoing(s)) = 1 /\ Outgoing(s)[1].condition = ""
    THEN Outgoing(s)[1].destination
    ELSE s

\* Lines 197 and 199.
CompletionResponse(s) ==
    IF Len(Outgoing(s)) = 1 /\ Outgoing(s)[1].condition = ""
    THEN StateChange(Outgoing(s)[1].destination)
    ELSE GItem("state_complete", s)

\* Lines 186-199: the routine returned.
GStopIteration ==
    /\ GCanSend
    /\ \E v \in GSendValues \ {None} :
          GNoteAdvance(GSent(self.state_gen, v))
    /\ self' = [self EXCEPT
                   !.current_state = AutoTransition(self.current_state),
                   !.state_gen = NoGenerator]
    /\ hostLog' = Append(hostLog, CompletionResponse(self.current_state))
    /\ pc' = ResponsePc(CompletionResponse(self.current_state))
    /\ stepKind' = "stop"
    /\ UNCHANGED routineLog
    /\ GUnchanged

\* Mutant of GException: the routine that raised is kept as state_gen.
GExceptionKeepsGenerator ==
    /\ GCanSend
    /\ \E v \in GSendValues \ {None} :
          /\ GNoteAdvance(GSent(self.state_gen, v))
          /\ self' = [self EXCEPT !.state_gen = GSent(@, v)]
    /\ hostLog' = Append(hostLog, GItem("error", "exception"))
    /\ pc' = "y257"
    /\ stepKind' = "exception"
    /\ UNCHANGED routineLog
    /\ GUnchanged

\* Lines 201-204: the routine raised.
GException ==
    /\ GCanSend
    /\ \E v \in GSendValues \ {None} :
          GNoteAdvance(GSent(self.state_gen, v))
    /\ self' = [self EXCEPT !.state_gen = NoGenerator]
    /\ hostLog' = Append(hostLog, GItem("error", "exception"))
    /\ pc' = "y257"
    /\ stepKind' = "exception"
    /\ UNCHANGED routineLog
    /\ GUnchanged

\* Lines 227, 233, 257 and 261: the loop goes on while self.current_state
\* is set.
GContinue ==
    /\ engine = "graph" /\ pc \in {"y232", "y257", "y261"}
    /\ pc' = IF self.current_state = None THEN "done" ELSE "loop"
    /\ stepKind' = "continue"
    /\ UNCHANGED <<self, hostLog, routineLog, advanced, advances>>
    /\ GUnchanged

\* Lines 253-254: break after the state_change to __end__.
GEnd ==
    /\ engine = "graph" /\ pc = "y253"
    /\ pc' = "done"
    /\ stepKind' = "end"
    /\ UNCHANGED <<self, hostLog, routineLog, advanced, advances>>
    /\ GUnchanged

\* The queued instructions run() has yielded so far.
GDelivered == SelectSeq(hostLog, LAMBDA x : x \in QueuedInstructions)

\* What the host passes to send_instruction: it sends "ping" and "pong" in
\* turn, so that consecutive queue entries differ.
GNextInstruction ==
    IF (Len(GDelivered) + Len(self.instruction_queue)) % 2 = 0
    THEN GItem("ping", None)
    ELSE GItem("pong", None)

\* Mutant of GSendInstruction: the queue is full only when it holds more
\* than max_queue_size entries.
GSendInstructionOffByOne ==
    /\ engine = "graph" /\ pc \notin {"loop", "done"}
    /\ \/ Len(GDelivered) + Len(self.instruction_queue) < MaxInstructions
       \/ Len(self.instruction_queue) >= max_queue_size
    /\ LET q == GNextInstruction
       IN IF Len(self.instruction_queue) > max_queue_size
          THEN /\ self' = self
               /\ stepKind' = "send_instruction: False"
          ELSE /\ self' = [self EXCEPT !.instruction_queue = Append(@, q)]
               /\ stepKind' = "send_instruction: True"
    /\ UNCHANGED <<pc, hostLog, routineLog, advanced, advances>>
    /\ GUnchanged

\* send_instruction (lines 300-320), called by the host while run() is not
\* executing; stepKind records the value it returns.
GSendInstruction ==
    /\ engine = "graph" /\ pc \notin {"loop", "done"}
    /\ \/ Len(GDelivered) + Len(self.instruction_queue) < MaxInstructions
       \/ Len(self.instruction_queue) >= max_queue_size
    /\ LET q == GNextInstruction
       IN IF Len(self.instruction_queue) >= max_queue_size
          THEN /\ self' = self
               /\ stepKind' = "send_instruction: False"
          ELSE /\ self' = [self EXCEPT !.instruction_queue = Append(@, q)]
               /\ stepKind' = "send_instruction: True"
    /\ UNCHANGED <<pc, hostLog, routineLog, advanced, advances>>
    /\ GUnchanged

-----------------------------------------------------------------------------
\* runner(): the ends of its loop.

RunnerUnchanged ==
    UNCHANGED <<engine, engine_stack, input_value, pc, yielded_value, rstack,
                active, signal, hostLog, routineLog, stepKind, advanced,
                advances, self>>

\* Lines 53-55: the call raised StopIteration, the generator is exhausted.
RunnerFinished ==
    /\ runner.pc \in {"line11", "line36"}
    /\ pc = "done"
    /\ runner' = [runner EXCEPT !.pc = "finished",
                                !.printed = "finished_banner"]
    /\ RunnerUnchanged

\* Mutant of RunnerAbort: after the banner the runner goes on with its loop.
RunnerAbortKeepsLooping ==
    /\ runner.pc \in {"line11", "line36"}
    /\ \/ pc = "raised"
       \/ Suspended /\ ~RunnerReads
       \/ Suspended /\ RunnerSends
    /\ runner' = [runner EXCEPT !.pc = "line11",
                                !.printed = "aborted_banner"]
    /\ RunnerUnchanged

\* Lines 56-59: an exception inside the try block ends the loop with the
\* abort banner: the exception the engine generator raised out of the
\* call, the TypeError of line 12 on an item that is no dict, or input()
\* failing at line 35.
RunnerAbort ==
    /\ runner.pc \in {"line11", "line36"}
    /\ \/ pc = "raised"
       \/ Suspended /\ ~RunnerReads
       \/ Suspended /\ RunnerSends
    /\ runner' = [runner EXCEPT !.pc = "aborted",
                                !.printed = "aborted_banner"]
    /\ RunnerUnchanged

-----------------------------------------------------------------------------
InitComposable ==
    /\ engine = "composable"
    /\ ValidMachine("main")
    /\ \E s \in InitialStates : engine_stack = <<Frame("main", s)>>
    /\ rstack = <<>>
    /\ active = 0

InitRecursive ==
    /\ engine = "recursive"
    /\ ValidMachine("main")
    /\ engine_stack = <<>>
    /\ \E s \in InitialStates : rstack = <<Activation("main", s)>>
    /\ active = 1

Init ==
    /\ InitComposable \/ InitRecursive
    /\ input_value = NoInputValue
    /\ pc = "loop"
    /\ yielded_value = NoneValue
    /\ signal = NoSignal
    /\ hostLog = <<>>
    /\ routineLog = <<>>
    /\ stepKind = "init"
    /\ advanced = NoAdvanced
    /\ advances = 0
    /\ runner \in {NoRunner, StartedRunner, StartedRunnerDebug}
    /\ self = NoEngine

Next ==
    \/ CPopFinished \/ CKeyError \/ CPushSubMachine
    \/ CTransition \/ CParentTransition \/ CRequestInput \/ COther
    \/ CUnexpected \/ CStopIteration \/ CException
    \/ CResumeAfterRequest \/ CReply \/ CResumeAfterYield
    \/ CResumeAfterError \/ CFinish
    \/ RFinished \/ RKeyError \/ REnterState \/ REnterSubMachine \/ RCallSub
    \/ RInvalidMachine
    \/ RTransition \/ RParentTransition \/ RRequestInput \/ ROther
    \/ RUnexpected \/ RStopIteration \/ RException
    \/ RResumeAfterRequest \/ RReply \/ RResumeAfterYield
    \/ RResumeAfterError \/ RReturn
    \/ RunnerFinished \/ RunnerAbort

Spec == Init /\ [][Next]_vars

\* Engine.run() of an Engine constructed on the graph, driven by a host.
InitGraph ==
    /\ engine = "graph"
    /\ \E g \in Graphs : self = EngineInit(g)
    /\ pc = "constructed"
    /\ engine_stack = <<>>
    /\ input_value = NoInputValue
    /\ yielded_value = NoneValue
    /\ rstack = <<>>
    /\ active = 0
    /\ signal = NoSignal
    /\ hostLog = <<>>
    /\ routineLog = <<>>
    /\ stepKind = "init"
    /\ advanced = NoAdvanced
    /\ advances = 0
    /\ runner = NoRunner

NextGraph ==
    \/ GStart \/ GBegin \/ GAfterStart \/ GQueued \/ GNoFunction \/ GPrimeFailed
    \/ GPrimed \/ GAwait \/ GAfterFailed \/ GBadInstruction
    \/ GStateChange \/ GInvalidState \/ GPassThrough \/ GNoneResponse
    \/ GStopIteration \/ GException \/ GContinue \/ GEnd
    \/ GSendInstruction

SpecGraph == InitGraph /\ [][NextGraph]_vars

\* Any of the three engines, driven by its host.
InitAll == Init \/ InitGraph

NextAll == Next \/ NextGraph

SpecAll == InitAll /\ [][NextAll]_vars

-----------------------------------------------------------------------------
\* Properties.

Range(s) == {s[i] : i \in DOMAIN s}

IsPrefix(s, t) == Len(s) <= Len(t) /\ SubSeq(t, 1, Len(s)) = s

HostTags == {"notify", "warning", "error", "debug", "custom", "request_input"}

HostDirected(v) == v.is_instruction /\ v.instruction \in HostTags

Delivered == SelectSeq(hostLog, HostDirected)

Produced == SelectSeq(routineLog, HostDirected)

Count(s, x) == Cardinality({i \in DOMAIN s : s[i] = x})

\* C1: in composable_engine, once a routine has yielded a transition to a
\* state T of the current machine and the engine is done with that routine,
\* the frame's current state is T.
C1_TransitionTaken ==
    (/\ engine = "composable"
     /\ stepKind = "stop"
     /\ advanced.gen.pos >= 2
     /\ yielded_value.is_instruction
     /\ yielded_value.instruction = "transition"
     /\ yielded_value.next_state \in DOMAIN StateDef(Top.state_def))
        => Top.current_state_name = yielded_value.next_state

\* The value the engine recorded as the host's reply.
RecordedReply ==
    IF engine = "composable"
    THEN input_value.input_data
    ELSE rstack[active].input_value.input_data

\* C2: in both engines, the first resume of a routine after the host's reply
\* v was recorded passes v into the routine.
C2_ReplyReachesRoutine ==
    [][(stepKind = "reply" /\ advances' = advances + 1)
          => advanced'.gen.received = RecordedReply]_vars

\* C3: in both engines, no item yielded to the host carries the tag
\* transition or parent_transition.
C3_NoTransitionDelivered ==
    \A i \in DOMAIN hostLog :
        hostLog[i].instruction \notin {"transition", "parent_transition"}

C3_Witness ==
    /\ \E i \in DOMAIN routineLog : routineLog[i].instruction = "transition"
    /\ \E i \in DOMAIN routineLog :
           routineLog[i].instruction = "parent_transition"
    /\ hostLog # <<>>
    /\ pc = "done"

\* C4: in both engines, the host-directed instructions (notify, warning,
\* error, debug, custom, request_input) the host has received are, in order
\* and without loss or duplication, those the routines yielded: they are
\* equal whenever the engine is suspended or finished, and while the engine
\* runs at most the one instruction being handed up through the nested
\* engines is missing.
C4_HostStreamIsRoutineStream ==
    /\ IsPrefix(Delivered, Produced)
    /\ Len(Produced) <= Len(Delivered) + 1
    /\ (pc # "loop" \/ engine = "composable") => Delivered = Produced

C4_Witness ==
    /\ engine = "recursive"
    /\ Len(rstack) = 2
    /\ pc = "host"
    /\ Len(Delivered) >= 2
    /\ Delivered[1].instruction # Delivered[2].instruction
    /\ \E i \in DOMAIN routineLog : routineLog[i].instruction = "transition"

\* C5: in composable_engine, when the top-level machine is at __end__ (one
\* frame, current state __end__) the engine pops it and delivers the terminal
\* notify; the terminal notify is delivered at most once, is the last item
\* delivered, and the next resume ends the generator without another item.
C5_TerminalNotify ==
    /\ [](engine = "composable" =>
            /\ Count(hostLog, TerminalNotify) <= 1
            /\ pc \in {"y121", "done"} =>
                  /\ Count(hostLog, TerminalNotify) = 1
                  /\ Last(hostLog) = TerminalNotify)
    /\ [][(/\ engine = "composable" /\ pc = "loop"
           /\ Len(engine_stack) = 1
           /\ engine_stack[1].current_state_name = "__end__")
             => /\ engine_stack' = <<>>
                /\ hostLog' = Append(hostLog, TerminalNotify)
                /\ pc' = "y121"]_vars
    /\ [][(engine = "composable" /\ pc = "y121")
             => (pc' = "done" /\ hostLog' = hostLog)]_vars

C5_Witness ==
    /\ engine = "composable"
    /\ pc = "y121"
    /\ stepKind = "pop_end"
    /\ Len(hostLog) >= 2

\* C6: in composable_engine, after a finished child frame has been popped
\* the parent does not enter the sub-machine again (no push without a new
\* transition into the sub-machine state).
C6_SubMachineEnteredOnce ==
    [][(/\ engine = "composable"
        /\ stepKind \in {"pop_end", "pop_none"}
        /\ engine_stack # <<>>)
          => stepKind' # "push"]_vars

\* C7: in composable_engine, a parent_transition to T yielded in a child
\* frame (T a state of the parent machine) pops exactly the child frame,
\* sets the parent's current state to T with no generator, delivers nothing,
\* and the next routine advanced is a fresh instance of the parent's T.
C7_ParentTransition ==
    /\ [][(/\ engine = "composable"
           /\ stepKind' = "parent_transition"
           /\ Len(engine_stack) >= 2
           /\ yielded_value'.next_state_for_parent \in
                  DOMAIN StateDef(engine_stack[Len(engine_stack) - 1].state_def))
             => /\ engine_stack' =
                       Append(SubSeq(engine_stack, 1, Len(engine_stack) - 2),
                              [engine_stack[Len(engine_stack) - 1] EXCEPT
                                  !.current_state_name =
                                      yielded_value'.next_state_for_parent])
                /\ engine_stack'[Len(engine_stack')].state_generator
                       = NoGenerator
                /\ hostLog' = hostLog]_vars
    /\ [][(/\ engine = "composable"
           /\ stepKind = "parent_transition"
           /\ engine_stack # <<>>
           /\ advances' = advances + 1)
             => /\ advanced'.depth = Len(engine_stack)
                /\ advanced'.state = yielded_value.next_state_for_parent
                /\ advanced'.gen.pos = 1]_vars

C7_Witness ==
    /\ engine = "composable"
    /\ advanced.depth = 1
    /\ advanced.state = "A"
    /\ advanced.gen.pos = 1
    /\ Len(routineLog) >= 2
    /\ routineLog[Len(routineLog) - 1].instruction = "parent_transition"
    /\ routineLog[Len(routineLog) - 1].next_state_for_parent = "A"
    /\ stepKind = "other"

\* C8: in composable_engine, when advancing a routine raises, what the
\* routine yielded before has been delivered, exactly one runner_error naming
\* the failing state is delivered, the frames keep their states, and the
\* resume after it pops exactly the top frame and delivers no other error.
C8_ErrorPopsTop ==
    /\ [][(engine = "composable" /\ stepKind' = "exception")
             => /\ hostLog' =
                       Append(hostLog, RunnerError(Top.current_state_name))
                /\ Delivered = Produced
                /\ routineLog' = routineLog
                /\ Below(engine_stack') = Below(engine_stack)
                /\ Len(engine_stack') = Len(engine_stack)
                /\ engine_stack'[Len(engine_stack')].current_state_name
                       = Top.current_state_name
                /\ pc' = "y114"]_vars
    /\ [][(engine = "composable" /\ pc = "y114")
             => /\ engine_stack' = Below(engine_stack)
                /\ hostLog' \in {hostLog, Append(hostLog, TerminalNotify)}]_vars

C8_Witness ==
    /\ engine = "composable"
    /\ stepKind = "resume_error"
    /\ Len(engine_stack) = 1
    /\ engine_stack[1].current_state_name = "S"
    /\ Len(Produced) >= 2
    /\ Last(hostLog).instruction = "runner_error"

\* C9: in both engines, after a routine of the top-level machine has raised
\* and the error was delivered, the engine ends without having delivered the
\* terminal notify.
C9_NoTerminalNotifyAfterError ==
    (/\ stepKind = "resume_error"
     /\ \/ engine = "composable" /\ engine_stack = <<>>
        \/ engine = "recursive" /\ Len(rstack) = 1)
        => TerminalNotify \notin Range(hostLog)

\* C10: in recursive_engine, the routine instantiated for the target of a
\* transition is handed the transition's payload in its input.
C10_PayloadDelivered ==
    [][\A k \in 1..Len(rstack) :
          (/\ engine = "recursive" /\ active = k
           /\ stepKind = "stop"
           /\ rstack[k].last_instruction_from_state.instruction = "transition"
           /\ stepKind' = "enter")
             => DictGet(rstack'[k].state_generator.input_data, "payload")
                    = rstack[k].last_instruction_from_state.payload]_vars

\* C11 (as stated): in composable_engine the frame stack is empty if and only
\* if the engine has terminated, i.e. its generator is exhausted or has
\* raised.
C11_EmptyIffTerminated ==
    engine = "composable" =>
        (engine_stack = <<>> <=> pc \in {"done", "raised"})

\* C11 (amended): in composable_engine the frame stack is empty if and only
\* if the engine has left its loop: it is suspended at the final yield of
\* the terminal notify, or its generator is exhausted.  A generator that has
\* raised still holds a non-empty stack.
C11_EmptyIffLoopLeft ==
    engine = "composable" =>
        /\ engine_stack = <<>> <=> pc \in {"y121", "done"}
        /\ pc = "raised" => engine_stack # <<>>

C11_Witness ==
    /\ engine = "composable"
    /\ engine_stack = <<>>
    /\ pc = "y121"
    /\ advances >= 1
    /\ Last(hostLog) = TerminalNotify

\* C13: every item composable_engine yields to the host is an instruction
\* record: a routine's yield tagged notify, warning, error, debug, custom or
\* request_input, an engine-generated runner_error or runner_warning, or the
\* terminal notify; no untagged value and no other tag is delivered.
C13_OnlyInstructionsDelivered ==
    engine = "composable" =>
        \A i \in DOMAIN hostLog :
            \/ HostDirected(hostLog[i])
            \/ /\ hostLog[i].is_instruction
               /\ hostLog[i].instruction \in {"runner_error", "runner_warning"}
            \/ hostLog[i] = TerminalNotify

\* C18: in composable_engine, when a routine of the top-level machine (frame
\* stack of depth 1) has yielded parent_transition, the frame is popped and
\* the engine halts without delivering the terminal notify.
C18_TopLevelParentTransition ==
    (/\ engine = "composable"
     /\ stepKind \in {"parent_transition", "finish"}
     /\ yielded_value.instruction = "parent_transition"
     /\ advanced.depth = 1)
        => /\ engine_stack = <<>>
           /\ TerminalNotify \notin Range(hostLog)

C15_NoInterleaving ==
    /\ [](engine = "composable" =>
            \A i \in 1..(Len(engine_stack) - 1) :
                engine_stack[i].state_generator = NoGenerator)
    /\ [][(/\ engine = "composable"
           /\ advances' = advances + 1
           /\ advanced'.gen.pos > 1)
             => /\ advanced'.depth = advanced.depth
                /\ advanced'.state = advanced.state
                /\ advanced'.gen = Resumed(advanced.gen)]_vars

C15_Witness ==
    /\ engine = "composable"
    /\ Len(engine_stack) = 2
    /\ Top.state_generator # NoGenerator
    /\ advanced.depth = 2
    /\ advanced.gen.pos >= 2
    /\ engine_stack[1].state_generator = NoGenerator

\* C16: in composable_engine, when a routine has directed the engine to a
\* state name that the machine it is applied to does not define (here the
\* next_state_for_parent of a parent_transition), the engine delivers an
\* error instruction to the host and pops that machine; the engine
\* generator does not raise.
C16_UndefinedTargetReported ==
    [][(/\ engine = "composable" /\ pc = "loop"
        /\ stepKind = "parent_transition"
        /\ engine_stack # <<>>
        /\ Top.current_state_name
               \notin (DOMAIN StateDef(Top.state_def) \cup {None, "__end__"}))
          => /\ pc' # "raised"
             /\ engine_stack' = Below(engine_stack)
             /\ Len(hostLog') > Len(hostLog)
             /\ hostLog'[Len(hostLog) + 1].instruction
                    \in {"error", "runner_error"}]_vars

\* C17: every machine definition composable_engine places on the frame
\* stack, top-level or nested, contains both __start__ and __end__ (a
\* definition lacking either is rejected before any routine of it is
\* instantiated).
C17_FramesHaveStartAndEnd ==
    engine = "composable" =>
        /\ \A i \in DOMAIN engine_stack :
               ValidMachine(engine_stack[i].state_def)
        /\ \A i \in DOMAIN engine_stack :
               engine_stack[i].state_generator # NoGenerator
                   => ValidMachine(engine_stack[i].state_def)

\* C12: when runner() drives an engine and has received a routine's
\* request_input instruction from next(), its next call into the engine
\* generator is the one send() of the string the user entered, before any
\* further next().
C12_RunnerRepliesToRequest ==
    [][(/\ runner.pc = "line11"
        /\ Suspended
        /\ Last(hostLog).is_instruction
        /\ Last(hostLog).instruction = "request_input"
        /\ runner'.pc \in {"line11", "line36"}
        /\ hostLog' # hostLog \/ pc' # pc)
          => /\ runner'.call = "send"
             /\ runner'.pc = "line36"
             /\ runner'.user_input \in UserInputs]_vars

\* The destinations of the outgoing transitions of state s.
Destinations(s) == {Outgoing(s)[i].destination : i \in DOMAIN Outgoing(s)}

\* C19: in the graph-driven Engine, when the current state has two or more
\* outgoing transitions, current_state changes only to the destination of
\* one of them (the first whose condition equals the label the routine
\* produced); it never becomes a state that is no such destination.
C19_MovesAlongOutgoingTransition ==
    [][(/\ engine = "graph"
        /\ Len(Outgoing(self.current_state)) >= 2
        /\ self'.current_state # self.current_state)
          => self'.current_state \in Destinations(self.current_state)]_vars

\* C20: in the graph-driven Engine, when the routine of a state with two or
\* more outgoing transitions completes without a label, the engine reports
\* an error and stays in that state, and once such a completion has been
\* reported no routine is advanced any more.
C20_CompletionWithoutLabelHalts ==
    /\ [][(/\ engine = "graph"
           /\ stepKind' = "stop"
           /\ Len(Outgoing(self.current_state)) >= 2)
             => /\ Last(hostLog').tag = "error"
                /\ self'.current_state = self.current_state]_vars
    /\ [][(/\ engine = "graph"
           /\ \E i \in DOMAIN hostLog :
                 /\ hostLog[i].tag = "state_complete"
                 /\ Len(Outgoing(hostLog[i].value)) >= 2)
             => advances' = advances]_vars

IterationItems ==
    {NoItem, GItem("error", "cannot unpack"),
     GItem("error", "Failed to initialize state")}

\* run() was started at __start__ (start()) and has only been iterated: no
\* instruction was sent or queued.
OnlyIterated ==
    /\ engine = "graph"
    /\ hostLog # <<>>
    /\ hostLog[1] = StateChange("__start__")
    /\ \A i \in 2..Len(hostLog) : hostLog[i] \in IterationItems
    /\ self.instruction_queue = <<>>

\* C22: when the generator returned by start() is iterated to exhaustion on
\* a graph with a path from __start__ to __end__, the engine has reported
\* the state changes along the path and current_state is __end__.
C22_IterationReachesEnd ==
    (OnlyIterated /\ pc = "done")
        => /\ self.current_state = "__end__"
           /\ StateChange("__end__") \in Range(hostLog)

\* C23: in Engine.run, once the routine of a state that does not have
\* exactly one unguarded outgoing transition has finished without
\* requesting a state change (the completion was reported as
\* state_complete), the machine has halted at that state: current_state
\* does not change any more and no routine is instantiated or advanced.
C23_CompletionHaltsMachine ==
    [][(/\ engine = "graph"
        /\ \E i \in DOMAIN hostLog : hostLog[i].tag = "state_complete")
          => /\ self'.current_state = self.current_state
             /\ self'.state_gen = NoGenerator
             /\ advances' = advances]_vars

\* C24: in recursive_engine and in Engine.run a coroutine handle is never
\* reused across entries into a state.  recursive_engine: every pass of an
\* activation from its outer loop into a state (a transition, a self-loop
\* or a re-entry) creates an instance that has not been advanced, the
\* instance an activation holds while it runs a state was created for that
\* state, and the current state changes only on the way back to the outer
\* loop.  Engine.run: every reported change of state (also to the same
\* state) drops the handle, the handle held was created for the current
\* state, and the first routine advance after a change of state is the
\* first advance of a new instance of the new current state.
C24_FreshInstancePerEntry ==
    /\ [](engine = "recursive" =>
            \A k \in DOMAIN rstack :
                rstack[k].pc \notin {"outer", "y82"}
                    => /\ rstack[k].state_generator.kind # None
                       /\ rstack[k].state_generator.state
                              = rstack[k].current_state_name)
    /\ [][engine = "recursive" =>
            \A k \in DOMAIN rstack \cap DOMAIN rstack' :
                /\ (rstack[k].pc = "outer" /\ rstack'[k].pc # "outer")
                      => \/ rstack'[k].pc = "y82"
                         \/ /\ rstack'[k].state_generator.pos = 0
                            /\ rstack'[k].state_generator.received = None
                            /\ rstack'[k].state_generator.state
                                   = rstack[k].current_state_name
                /\ rstack'[k].current_state_name
                       # rstack[k].current_state_name
                      => rstack'[k].pc \in {"outer", "y82"}]_vars
    /\ []((engine = "graph" /\ self.state_gen # NoGenerator)
            => self.state_gen.state = self.current_state)
    /\ [][(/\ engine = "graph"
           /\ Len(hostLog') > Len(hostLog)
           /\ Last(hostLog').tag = "state_change")
             => self'.state_gen = NoGenerator]_vars
    /\ [][(/\ engine = "graph"
           /\ hostLog # <<>>
           /\ Last(hostLog).tag = "state_change"
           /\ advances' = advances + 1)
             => /\ advanced'.gen.pos = 1
                /\ advanced'.gen.state = self.current_state
                /\ advanced'.gen.state = Last(hostLog).value]_vars

C24_Witness ==
    /\ engine = "graph"
    /\ stepKind = "primed"
    /\ advanced.state = "a"
    /\ advanced.gen.pos = 1
    /\ Len(hostLog) >= 4
    /\ hostLog[1] = StateChange("a")
    /\ hostLog[Len(hostLog) - 1] = StateChange("a")
    /\ Last(routineLog) = PrimeValue
    /\ routineLog[Len(routineLog) - 1] = StateChange("a")

\* A machine whose current state is None is finished like one at __end__
\* (line 20 of composable_engine, line 11 of recursive_engine).
Norm(state) == IF state = None THEN "__end__" ELSE state

\* The machines of a stack of frames or activations and where they stand.
Machines(stack) ==
    [i \in DOMAIN stack |->
        <<stack[i].state_def, Norm(stack[i].current_state_name)>>]

\* The routine advanced in this step returns without having yielded.
ReturnsAtOnce ==
    stepKind' = "stop" /\ advances' = advances + 1 /\ advanced'.gen.pos = 1

\* The routine advanced in this step returns after its single yield, a
\* transition to __end__.
ReturnsAfterTransitionToEnd ==
    /\ stepKind' = "stop" /\ advances' = advances + 1
    /\ advanced'.gen.pos = 2
    /\ stepKind = "transition"
    /\ yielded_value.instruction = "transition"
    /\ yielded_value.next_state = "__end__"

\* C25: in composable_engine and recursive_engine a routine that returns
\* without yielding and a routine that yields one transition to __end__ and
\* returns have the same effect: the yield of the transition delivers
\* nothing and leaves the machines of the stack where they are, and in both
\* cases the return delivers nothing, leaves the routine's machine finished
\* with every other machine unchanged, resets input_value and hands control
\* to the loop test, which finishes that machine in the same way.
C25_ReturnIsTransitionToEnd ==
    /\ [][(engine = "composable" /\ stepKind' = "transition")
             => /\ hostLog' = hostLog
                /\ input_value' = input_value
                /\ Machines(engine_stack') = Machines(engine_stack)]_vars
    /\ [][(/\ engine = "composable"
           /\ ReturnsAtOnce \/ ReturnsAfterTransitionToEnd)
             => /\ hostLog' = hostLog
                /\ input_value' = NoInputValue
                /\ pc' = "loop"
                /\ engine_stack' =
                       ReplaceTop(engine_stack,
                           [state_def |-> Top.state_def,
                            current_state_name |-> None,
                            state_generator |-> NoGenerator])]_vars
    /\ [][(engine = "recursive" /\ stepKind' = "transition")
             => /\ hostLog' = hostLog
                /\ pc' = pc /\ active' = active
                /\ Machines(rstack') = Machines(rstack)
                /\ rstack'[active].input_value = rstack[active].input_value
                /\ rstack'[active].pc = "inner"]_vars
    /\ [][(/\ engine = "recursive"
           /\ ReturnsAtOnce \/ ReturnsAfterTransitionToEnd)
             => /\ hostLog' = hostLog
                /\ pc' = pc /\ active' = active
                /\ Machines(rstack') =
                       [Machines(rstack) EXCEPT ![active][2] = "__end__"]
                /\ rstack'[active].input_value = NoInputValue
                /\ rstack'[active].pc = "outer"]_vars
    /\ [][(/\ engine = "recursive" /\ pc = "loop"
           /\ active \in DOMAIN rstack
           /\ rstack[active].pc = "outer"
           /\ Norm(rstack[active].current_state_name) = "__end__")
             => /\ stepKind' = "terminal"
                /\ Machines(rstack') = Machines(rstack)
                /\ rstack'[active].pc = "y82"
                /\ IF active = 1
                   THEN hostLog' = Append(hostLog, TerminalNotify)
                   ELSE /\ hostLog' = hostLog
                        /\ signal' = YieldSignal(TerminalNotify)]_vars

C25_Witness ==
    /\ engine = "recursive"
    /\ Len(rstack) = 2 /\ active = 2
    /\ stepKind = "stop"
    /\ advanced.gen.pos = 2 /\ advanced.depth = 2
    /\ yielded_value = Transition("__end__", None)
    /\ rstack[2].current_state_name = "__end__"
    /\ rstack[2].pc = "outer"

\* C26: no engine instantiates or advances the routine bound to __end__.
\* No routine instance of __end__ is ever advanced or held; a
\* composable_engine frame at __end__ is popped by the next step, a
\* recursive_engine activation at __end__ leaves its loop for the final
\* yield, and Engine.run is never inside its loop with current_state
\* __end__.
C26_EndIsNeverRun ==
    /\ [](advanced.state # "__end__" /\ advanced.gen.state # "__end__")
    /\ [](\A i \in DOMAIN engine_stack :
              engine_stack[i].state_generator.state # "__end__")
    /\ [](\A k \in DOMAIN rstack :
              rstack[k].current_state_name = "__end__"
                  => rstack[k].pc \in {"outer", "y82"})
    /\ []((engine = "graph" /\ self.current_state = "__end__")
            => /\ pc \in {"created", "y220", "y253", "done"}
               /\ self.state_gen = NoGenerator)
    /\ [][(/\ engine = "composable" /\ pc = "loop"
           /\ engine_stack # <<>>
           /\ Top.current_state_name = "__end__")
             => /\ engine_stack' = Below(engine_stack)
                /\ advances' = advances]_vars
    /\ [][(/\ engine = "recursive" /\ pc = "loop"
           /\ active \in DOMAIN rstack
           /\ rstack[active].current_state_name = "__end__"
           /\ rstack[active].pc = "outer")
             => /\ rstack'[active].pc = "y82"
                /\ advances' = advances]_vars
    /\ [][(engine = "graph" /\ self.current_state = "__end__")
             => /\ pc' # "loop"
                /\ self'.current_state = "__end__"
                /\ advances' = advances]_vars

C26_Witness ==
    /\ engine = "composable"
    /\ stepKind = "pop_end"
    /\ engine_stack = <<>>
    /\ advanced.depth = 2
    /\ yielded_value = ParentTransitionInstr("__end__")

\* C27: in composable_engine, when the top frame has no coroutine and its
\* current state maps to a nested machine definition, the step pushes
\* exactly one frame for that definition with current state __start__ and
\* no coroutine, delivers nothing to the host, advances no routine, and
\* leaves every existing frame (machine, current state, coroutine handle)
\* unchanged.
C27_PushFrameEffect ==
    [][(/\ engine = "composable" /\ pc = "loop"
        /\ engine_stack # <<>>
        /\ Top.state_generator = NoGenerator
        /\ Top.current_state_name \in DOMAIN StateDef(Top.state_def)
        /\ StateDef(Top.state_def)[Top.current_state_name] # Callable)
          => /\ Len(engine_stack') = Len(engine_stack) + 1
             /\ SubSeq(engine_stack', 1, Len(engine_stack)) = engine_stack
             /\ Last(engine_stack') =
                    [state_def |->
                         StateDef(Top.state_def)[Top.current_state_name],
                     current_state_name |-> "__start__",
                     state_generator |-> NoGenerator]
             /\ hostLog' = hostLog
             /\ routineLog' = routineLog
             /\ advances' = advances
             /\ input_value' = input_value
             /\ pc' = "loop"]_vars

C27_Witness ==
    /\ engine = "composable"
    /\ stepKind = "push"
    /\ Len(engine_stack) = 2
    /\ engine_stack[1].current_state_name = "S"
    /\ Top = Frame("sub", "__start__")
    /\ advanced.depth = 2
    /\ hostLog # <<>>

\* C28: when runner() runs with debug_mode False and next() has returned a
\* debug instruction (tagged debug or runner_debug), the runner prints
\* nothing for it before its next call into the engine generator.
C28_DebugSuppressed ==
    [][(/\ runner.pc = "line11"
        /\ ~runner.debug_mode
        /\ Suspended
        /\ Last(hostLog).is_instruction
        /\ Last(hostLog).instruction \in {"debug", "runner_debug"}
        /\ runner' # runner)
          => runner'.printed = None]_vars

\* C29: when an exception other than StopIteration is raised inside
\* runner()'s loop (by the engine generator, or by handling the item: the
\* TypeError of line 12 on an item that is no dict, input() failing), the
\* runner prints the abort banner and leaves the loop; when its call raises
\* StopIteration it prints the end delimiter and leaves the loop; once it
\* has left the loop nothing happens any more: the engine generator is not
\* resumed again.
C29_RunnerLeavesLoop ==
    /\ [][(/\ runner.pc \in {"line11", "line36"}
           /\ pc = "raised" \/ (Suspended /\ ~RunnerReads))
             => /\ runner'.pc = "aborted"
                /\ runner'.printed = "aborted_banner"
                /\ pc' = pc /\ hostLog' = hostLog
                /\ advances' = advances]_vars
    /\ [][(runner.pc \in {"line11", "line36"} /\ pc = "done")
             => /\ runner'.pc = "finished"
                /\ runner'.printed = "finished_banner"
                /\ pc' = pc /\ hostLog' = hostLog
                /\ advances' = advances]_vars
    /\ [][(runner.pc # "aborted" /\ runner'.pc = "aborted")
             => /\ runner'.printed = "aborted_banner"
                /\ pc = "raised" \/ Suspended]_vars
    /\ [][runner.pc \notin {"aborted", "finished"}]_vars

C29_Witness ==
    /\ runner.pc = "aborted"
    /\ runner.printed = "aborted_banner"
    /\ runner.call = "next"
    /\ hostLog # <<>>
    /\ Last(hostLog) = NoneValue
    /\ advances >= 1

\* C30: in recursive_engine, when a routine inside a nested sub-machine has
\* yielded parent_transition to T, the sub-machine is left: its activation
\* instantiates no further routine (or nested machine), and the routine the
\* engine advances next belongs to the parent machine and is T's.
C30_ParentTransitionLeavesSubMachine ==
    /\ [][(/\ engine = "recursive"
           /\ stepKind = "parent_transition"
           /\ active >= 2)
             => ~(stepKind' \in {"enter", "enter_sub"} /\ active' = active)]_vars
    /\ [][(/\ engine = "recursive"
           /\ routineLog # <<>>
           /\ Last(routineLog).instruction = "parent_transition"
           /\ advanced.depth >= 2
           /\ advances' = advances + 1)
             => /\ advanced'.depth = advanced.depth - 1
                /\ advanced'.state = Last(routineLog).next_state_for_parent
                /\ advanced'.gen.pos = 1]_vars

\* C31: in recursive_engine the terminal notify is delivered to the host at
\* most once, and only when the top-level machine has ended: while the
\* outermost activation is still inside its loop (a nested sub-machine may
\* have finished) the host has received no terminal notify.
C31_TerminalNotifyOnlyAtTopLevel ==
    engine = "recursive" =>
        /\ Count(hostLog, TerminalNotify) <= 1
        /\ TerminalNotify \in Range(hostLog)
              => (rstack = <<>> \/ rstack[1].pc = "y82")

\* C32: start() on an Engine whose states include __start__ selects
\* __start__, and the first item the returned generator yields is
\* ("state_change", "__start__"); start() returns None when states is empty
\* or no initial state exists; and when the initial state is __end__ the
\* generator ends right after its first item.
C32_StartSelectsInitialState ==
    /\ [](engine = "graph" /\ pc # "constructed" /\ InStates(self, "__start__")
            => /\ pc # "no_generator"
               /\ pc = "created" => self.current_state = "__start__"
               /\ hostLog # <<>> => hostLog[1] = StateChange("__start__"))
    /\ [](engine = "graph" /\ pc # "constructed"
            /\ (self.states = <<>> \/ find_initial_state(self) = None)
            => pc = "no_generator" /\ hostLog = <<>>)
    /\ [][(/\ engine = "graph" /\ pc = "y220"
           /\ self.current_state = "__end__" /\ Len(hostLog) = 1
           /\ pc' # pc)
          => pc' = "done" /\ hostLog' = hostLog]_vars

\* The generator of an Engine with __start__ has yielded its first item.
C32_Witness ==
    /\ engine = "graph" /\ pc = "y220"
    /\ InStates(self, "__start__")
    /\ hostLog = <<StateChange("__start__")>>

\* start() has returned None on the cycle a -> b -> a.
C32_WitnessNoInitialState ==
    /\ engine = "graph" /\ pc = "no_generator"
    /\ self.states # <<>>

\* The generator started at __end__ has ended after its first item.
C32_WitnessEnd ==
    /\ engine = "graph" /\ pc = "done"
    /\ hostLog = <<StateChange("__end__")>>

\* C33: in composable_engine and recursive_engine each request_input takes
\* two resumes: resumed after yielding the request, the engine yields a bare
\* None and changes nothing else, whatever the resume passed; resumed again,
\* it records the value of that second resume as input_value.
C33_RequestInputTakesTwoResumes ==
    /\ [][(engine = "composable" /\ pc = "y78" /\ pc' # pc)
            => /\ pc' = "y79"
               /\ hostLog' = Append(hostLog, NoneValue)
               /\ input_value' = input_value
               /\ engine_stack' = engine_stack
               /\ advances' = advances]_vars
    /\ [][(engine = "composable" /\ pc = "y79" /\ pc' # pc)
            => /\ pc' = "loop"
               /\ hostLog' = hostLog
               /\ \E v \in SendValues : input_value' = RunnerInput(v)]_vars
    /\ [][\A k \in DOMAIN rstack :
            (/\ engine = "recursive" /\ Len(rstack') = Len(rstack)
             /\ rstack[k].pc = "y48" /\ rstack'[k].pc # "y48")
            => /\ rstack'[k] = [rstack[k] EXCEPT !.pc = "y49"]
               /\ advances' = advances
               /\ IF k = 1 THEN hostLog' = Append(hostLog, NoneValue)
                           ELSE signal' = YieldSignal(NoneValue)]_vars
    /\ [][\A k \in DOMAIN rstack :
            (/\ engine = "recursive" /\ Len(rstack') = Len(rstack)
             /\ rstack[k].pc = "y49" /\ rstack'[k].pc # "y49")
            => /\ \E v \in SendValues :
                    rstack'[k] = [rstack[k] EXCEPT
                                     !.input_value = RunnerInput(v),
                                     !.pc = "inner"]
               /\ hostLog' = hostLog]_vars

\* After a request and the bare None that followed it, the host's second
\* resume passed "r2", which is the recorded input.
C33_Witness ==
    /\ stepKind = "reply"
    /\ RecordedReply = "r2"
    /\ Len(hostLog) >= 2
    /\ hostLog[Len(hostLog) - 1].is_instruction
    /\ Last(hostLog) = NoneValue

\* C34: Engine.send_instruction appends the pair to instruction_queue and
\* returns True iff the queue holds fewer than max_queue_size entries;
\* otherwise it returns False and leaves the queue unchanged.  Hence the
\* queue never holds more than max_queue_size entries, whatever the
\* interleaving of send_instruction calls and steps of run().
C34_QueueBounded ==
    /\ [](engine = "graph"
            => Len(self.instruction_queue) <= max_queue_size)
    /\ [][(engine = "graph" /\ stepKind' \in {"send_instruction: True",
                                              "send_instruction: False"})
            => IF Len(self.instruction_queue) < max_queue_size
               THEN /\ stepKind' = "send_instruction: True"
                    /\ \E q \in QueuedInstructions :
                          self'.instruction_queue =
                              Append(self.instruction_queue, q)
               ELSE /\ stepKind' = "send_instruction: False"
                    /\ self'.instruction_queue = self.instruction_queue]_vars

\* A send_instruction on a full queue has returned False.
C34_Witness ==
    /\ engine = "graph"
    /\ stepKind = "send_instruction: False"
    /\ Len(self.instruction_queue) = max_queue_size

\* The queued instructions already yielded, followed by those still in the
\* queue.
GAccepted == GDelivered \o self.instruction_queue

C36_PrimingValueDiscarded ==
    /\ [](engine = "graph" => PrimeValue \notin Range(hostLog))
    /\ [][(engine = "graph" /\ advances' = advances + 1)
            => IF advanced'.gen.pos = 1
               THEN /\ self.state_gen = NoGenerator
                    /\ IF routineLog' # routineLog
                       THEN /\ self'.state_gen = advanced'.gen
                            /\ routineLog' = Append(routineLog, PrimeValue)
                            /\ hostLog' = Append(hostLog, NoItem)
                       ELSE self'.state_gen = NoGenerator
               ELSE /\ pc = "y245"
                    /\ advanced'.gen = GSent(self.state_gen,
                                             advanced'.gen.received)
                    /\ advanced'.gen.received \in GSendValues \ {None}]_vars

\* A routine was primed and then, in reply to the pair the host sent,
\* yielded a response that was delivered.
C36_Witness ==
    /\ engine = "graph"
    /\ stepKind = "pass_through"
    /\ routineLog = <<PrimeValue, GItem("OK", None)>>
    /\ Last(hostLog) = GItem("OK", None)
    /\ advanced.gen.received = "go"

\* C37: in Engine.run, when the send into the current routine raises an
\* exception other than StopIteration, the engine yields ("error", message),
\* clears state_gen and leaves current_state unchanged.  The engine does not
\* terminate: resumed, it goes back to the head of its loop, the current
\* state stays the same while there is no routine, and the next routine it
\* advances is a fresh instance for that state.
C37_ExceptionRestartsState ==
    /\ [][(engine = "graph" /\ stepKind' = "exception"
           /\ advances' = advances + 1)
            => /\ hostLog' = Append(hostLog, GItem("error", "exception"))
               /\ self.state_gen # NoGenerator
               /\ self' = [self EXCEPT !.state_gen = NoGenerator]
               /\ Suspended']_vars
    /\ [][(engine = "graph" /\ pc = "y257" /\ pc' # pc
           /\ Last(hostLog) = GItem("error", "exception"))
            => pc' = "loop" /\ self' = self]_vars
    /\ [][(engine = "graph" /\ pc \in {"loop", "y232", "y245", "y257"}
           /\ self.state_gen = NoGenerator)
            => /\ self'.current_state = self.current_state
               /\ advances' = advances + 1
                    => /\ advanced'.state = self.current_state
                       /\ advanced'.gen =
                            Resumed(NewGenerator(self.current_state,
                                                 NoInputValue))]_vars

\* After the error of a routine that raised, a fresh routine of the same
\* state has been primed.
C37_Witness ==
    /\ engine = "graph"
    /\ stepKind = "primed"
    /\ Len(hostLog) >= 2
    /\ hostLog[Len(hostLog) - 1] = GItem("error", "exception")
    /\ advanced.state = self.current_state
    /\ self.state_gen.pos = 1

\* C38: in Engine._process_instruction, when the routine responds
\* ("state_change", X) with X not in states, the result is an error, and
\* current_state and the live routine instance are kept (state_gen is the
\* instance that was just advanced); when X is in states, current_state
\* becomes X, state_gen is cleared and ("state_change", X) is the result.
C38_StateChangeValidation ==
    [][(/\ engine = "graph"
        /\ Len(routineLog') = Len(routineLog) + 1
        /\ Last(routineLog').tag = "state_change")
          => LET X == Last(routineLog').value
             IN  IF InStates(self, X)
                 THEN /\ self' = [self EXCEPT !.current_state = X,
                                              !.state_gen = NoGenerator]
                      /\ hostLog' = Append(hostLog, StateChange(X))
                 ELSE /\ hostLog' =
                            Append(hostLog, GItem("error", "Invalid state"))
                      /\ self'.current_state = self.current_state
                      /\ self.state_gen # NoGenerator
                      /\ self'.state_gen =
                            GSent(self.state_gen, advanced'.gen.received)
                      /\ advanced'.gen = self'.state_gen]_vars

\* A routine of the graph with __start__ asked for the state X, which the
\* graph does not have, and is still the live routine.
C38_Witness ==
    /\ engine = "graph"
    /\ stepKind = "invalid_state"
    /\ Last(routineLog) = StateChange("X")
    /\ Last(hostLog) = GItem("error", "Invalid state")
    /\ self.current_state = "__start__"
    /\ self.state_gen.state = "__start__"
    /\ self.state_gen.pos > 1

\* The routine of the current state has just yielded a value that is not an
\* instruction record.
YieldedUnexpected ==
    /\ Len(routineLog') = Len(routineLog) + 1
    /\ ~Last(routineLog').is_instruction

\* C39: in composable_engine and recursive_engine, when a routine yields a
\* value that is not an instruction record, the engine yields exactly one
\* runner_warning carrying that value (the outermost generator to the host,
\* a nested recursive_engine to its caller, which passes it on), leaves the
\* frame stack and the current state as they are, and keeps the routine:
\* resumed, it goes on with the same instance, which its next advance
\* resumes.
C39_UnexpectedYieldWarns ==
    /\ [][(engine = "composable" /\ YieldedUnexpected)
            => /\ hostLog' = Append(hostLog, RunnerWarning(Last(routineLog')))
               /\ engine_stack' =
                      ReplaceTop(engine_stack,
                                 [Top EXCEPT !.state_generator = advanced'.gen])
               /\ advanced'.gen = Resumed(CGen)
               /\ pc' = "y89"]_vars
    /\ [][(engine = "composable" /\ pc = "y89" /\ pc' # pc)
            => /\ pc' = "loop"
               /\ engine_stack' = engine_stack
               /\ hostLog' = hostLog
               /\ advances' = advances]_vars
    /\ [][(/\ engine = "composable" /\ pc = "loop" /\ engine_stack # <<>>
           /\ Top.state_generator # NoGenerator
           /\ advances' = advances + 1)
            => advanced'.gen = Resumed(Top.state_generator)]_vars
    /\ [][(engine = "recursive" /\ YieldedUnexpected)
            => /\ Len(rstack') = Len(rstack)
               /\ rstack' = [rstack EXCEPT ![active] =
                      [@ EXCEPT !.state_generator = advanced'.gen,
                                !.last_instruction_from_state =
                                    Last(routineLog'),
                                !.pc = "y57"]]
               /\ advanced'.gen = Resumed(rstack[active].state_generator)
               /\ IF active = 1
                  THEN hostLog' =
                           Append(hostLog, RunnerWarning(Last(routineLog')))
                  ELSE /\ hostLog' = hostLog
                       /\ signal' =
                              YieldSignal(RunnerWarning(Last(routineLog')))]_vars
    /\ [][\A k \in DOMAIN rstack :
            (/\ engine = "recursive" /\ Len(rstack') = Len(rstack)
             /\ rstack[k].pc = "y57" /\ rstack'[k].pc # "y57")
            => /\ rstack'[k] = [rstack[k] EXCEPT
                      !.instruction_result =
                          rstack[k].last_instruction_from_state,
                      !.pc = "inner"]
               /\ hostLog' = hostLog
               /\ advances' = advances]_vars
    /\ [][\A k \in DOMAIN rstack :
            (/\ engine = "recursive" /\ active = k /\ pc = "loop"
             /\ rstack[k].pc = "waiting" /\ signal.kind = "yield"
             /\ signal.value.is_instruction
             /\ signal.value.instruction = "runner_warning")
            => IF k = 1 THEN hostLog' = Append(hostLog, signal.value)
                        ELSE signal' = signal /\ hostLog' = hostLog]_vars

\* A routine has yielded a second unexpected value after its first one, and
\* the host has one warning for each.
C39_Witness ==
    /\ stepKind = "unexpected"
    /\ routineLog = <<NoneValue, NoneValue>>
    /\ advanced.gen.pos = 2
    /\ Count(hostLog, RunnerWarning(NoneValue)) = 2
====
